---------------------------- MODULE Spec2Model ----------------------------
(***************************************************************************)
(* Model of CLI-Dev-Pattern.py, the AETHERYON Dev Pattern generator: the   *)
(* template registry (get_templates), the materializer                     *)
(* (generar_estructura) and the command line shell around them (main,      *)
(* pedir_nivel, pedir_ruta, confirmar), run against a filesystem.          *)
(*                                                                         *)
(* A path is the sequence of its segments (pathlib's parts); a template    *)
(* body is an opaque immutable text, named by the function or literal of   *)
(* the source that yields it ("" is the empty text).  A dict is the        *)
(* sequence of its <<key, value>> items in insertion order.                *)
(***************************************************************************)
EXTENDS Integers, Sequences, FiniteSets, TLC

(***************************************************************************)
(* Bounds of the model.                                                    *)
(***************************************************************************)
\* user edits of generated files over the life of the destination
MaxEdits == 1
\* filesystem errors injected over the life of the destination
MaxFaults == 1
\* abnormal terminations (kill) of generator processes
MaxKills == 1
\* entries of MIGRACIONES once the developer has extended the list
MaxMigraciones == 5
\* entities the backend of the generated view-model can hold
MaxEntidades == 2

(***************************************************************************)
(* Python dict, as the sequence of its items in insertion order.           *)
(***************************************************************************)
Keys(d) == {d[i][1] : i \in 1..Len(d)}

KeySeq(d) == [i \in 1..Len(d) |-> d[i][1]]

\* the dict built from empty by the assignments d[k] = v of `items`, in order:
\* a key keeps the position of its first assignment and the value of its last
Assign(items) ==
  LET first == {i \in 1..Len(items) : \A j \in 1..(i - 1) : items[j][1] # items[i][1]}
      last(k) == CHOOSE i \in 1..Len(items) :
                   /\ items[i][1] = k
                   /\ \A j \in (i + 1)..Len(items) : items[j][1] # k
      nth(m) == CHOOSE i \in first : Cardinality({j \in first : j < i}) = m - 1
  IN  [m \in 1..Cardinality(first) |-> <<items[nth(m)][1], items[last(items[nth(m)][1])][2]>>]

(***************************************************************************)
(* The template registry: the assignments of get_templates, block by       *)
(* block, in source order.                                                 *)
(***************************************************************************)
\* mutant: level 1 also gets a README
Asig_nivel1_con_readme ==
  << << <<"proyecto.py">>, "nivel1:proyecto.py" >>,
     << <<"README.md">>, "_tpl_readme" >> >>

\* mutant: level 1 also writes a file named like the Domain package
Asig_nivel1_domain ==
  << << <<"proyecto.py">>, "nivel1:proyecto.py" >>,
     << <<"Domain">>, "_tpl_entidad" >> >>

\* Asig_nivel1: lines 85-85
Asig_nivel1 ==
  << << <<"proyecto.py">>, "nivel1:proyecto.py" >> >>

\* mutant: level 2 uses the backend of the levels from 3 on
Asig_nivel2_backend3 ==
  << << <<"backend.py">>, "_tpl_backend" >>,
     << <<"frontend.py">>, "nivel2:frontend.py" >> >>

\* Asig_nivel2: lines 306-399
Asig_nivel2 ==
  << << <<"backend.py">>, "nivel2:backend.py" >>,
     << <<"frontend.py">>, "nivel2:frontend.py" >> >>

\* Asig_raiz: lines 524-525
Asig_raiz ==
  << << <<"backend.py">>, "_tpl_backend" >>,
     << <<"bootstrap.py">>, "_tpl_bootstrap" >> >>

\* Asig_config: lines 528-531
Asig_config ==
  << << <<"config.py">>, "_tpl_config" >>,
     << <<"requirements.txt">>, "_tpl_requirements" >>,
     << <<".env.example">>, "_tpl_env" >>,
     << <<".gitignore">>, "_tpl_gitignore" >> >>

\* Asig_domain: lines 534-542
Asig_domain ==
  << << <<"Domain", "__init__.py">>, "doc:Domain/__init__.py" >>,
     << <<"Domain", "entidades", "__init__.py">>, "" >>,
     << <<"Domain", "entidades", "entidad.py">>, "_tpl_entidad" >>,
     << <<"Domain", "value_objects", "__init__.py">>, "" >>,
     << <<"Domain", "value_objects", "nombre.py">>, "_tpl_value_object" >>,
     << <<"Domain", "eventos", "__init__.py">>, "" >>,
     << <<"Domain", "eventos", "eventos_entidad.py">>, "_tpl_eventos" >>,
     << <<"Domain", "excepciones", "__init__.py">>, "" >>,
     << <<"Domain", "excepciones", "excepciones_dominio.py">>, "_tpl_excepciones" >> >>

\* Asig_application: lines 545-551
Asig_application ==
  << << <<"Application", "__init__.py">>, "doc:Application/__init__.py" >>,
     << <<"Application", "servicios", "__init__.py">>, "" >>,
     << <<"Application", "servicios", "servicio_entidad.py">>, "_tpl_servicio" >>,
     << <<"Application", "dto", "__init__.py">>, "" >>,
     << <<"Application", "dto", "entidad_dto.py">>, "_tpl_dto" >>,
     << <<"Application", "interfaces", "__init__.py">>, "" >>,
     << <<"Application", "interfaces", "repositorio_entidad.py">>, "_tpl_repositorio_abc" >> >>

\* Asig_infrastructure: lines 554-563
Asig_infrastructure ==
  << << <<"Infrastructure", "__init__.py">>, "doc:Infrastructure/__init__.py" >>,
     << <<"Infrastructure", "persistencia", "__init__.py">>, "" >>,
     << <<"Infrastructure", "persistencia", "base_datos", "__init__.py">>, "" >>,
     << <<"Infrastructure", "persistencia", "base_datos", "conexion.py">>, "_tpl_conexion" >>,
     << <<"Infrastructure", "persistencia", "repositorios", "__init__.py">>, "" >>,
     << <<"Infrastructure", "persistencia", "repositorios", "repositorio_entidad_sql.py">>, "_tpl_repositorio_sql" >>,
     << <<"Infrastructure", "servicios_externos", "__init__.py">>, "" >>,
     << <<"Infrastructure", "servicios_externos", "servicio_externo.py">>, "_tpl_servicio_externo" >>,
     << <<"Infrastructure", "logging", "__init__.py">>, "" >>,
     << <<"Infrastructure", "logging", "logger_config.py">>, "_tpl_logger" >> >>

\* Asig_ui: lines 566-569
Asig_ui ==
  << << <<"User_Interface", "__init__.py">>, "doc:User_Interface/__init__.py" >>,
     << <<"User_Interface", "layout.py">>, "_tpl_layout" >>,
     << <<"User_Interface", "vistas", "__init__.py">>, "" >>,
     << <<"User_Interface", "vistas", "vista_principal.py">>, "_tpl_vista" >> >>

\* Asig_tests: lines 573-580
Asig_tests ==
  << << <<"Tests", "__init__.py">>, "" >>,
     << <<"Tests", "conftest.py">>, "_tpl_conftest" >>,
     << <<"Tests", "test_domain", "__init__.py">>, "" >>,
     << <<"Tests", "test_domain", "test_entidad.py">>, "_tpl_test_domain" >>,
     << <<"Tests", "test_application", "__init__.py">>, "" >>,
     << <<"Tests", "test_application", "test_servicio_entidad.py">>, "_tpl_test_application" >>,
     << <<"Tests", "test_infrastructure", "__init__.py">>, "" >>,
     << <<"Tests", "test_infrastructure", "test_repositorio.py">>, "_tpl_test_infra" >> >>

\* mutant: the seed-data loader is left out
Asig_scripts_sin_seed ==
  << << <<"Scripts", "__init__.py">>, "" >>,
     << <<"Scripts", "migraciones.py">>, "_tpl_migraciones" >> >>

\* Asig_scripts: lines 583-585
Asig_scripts ==
  << << <<"Scripts", "__init__.py">>, "" >>,
     << <<"Scripts", "migraciones.py">>, "_tpl_migraciones" >>,
     << <<"Scripts", "seed_data.py">>, "_tpl_seed" >> >>

\* mutant: the second document is assigned at the path of the first
Asig_docs_repetido ==
  << << <<"Docs", "README.md">>, "_tpl_readme" >>,
     << <<"Docs", "README.md">>, "_tpl_arquitectura" >> >>

\* Asig_docs: lines 588-589
Asig_docs ==
  << << <<"Docs", "README.md">>, "_tpl_readme" >>,
     << <<"Docs", "arquitectura.md">>, "_tpl_arquitectura" >> >>

\* Asig_presentation: lines 593-602
Asig_presentation ==
  << << <<"Presentation", "__init__.py">>, "doc:Presentation/__init__.py" >>,
     << <<"Presentation", "viewmodels", "__init__.py">>, "" >>,
     << <<"Presentation", "viewmodels", "viewmodel_base.py">>, "_tpl_viewmodel_base" >>,
     << <<"Presentation", "viewmodels", "entidad_viewmodel.py">>, "_tpl_viewmodel" >>,
     << <<"Presentation", "models", "__init__.py">>, "" >>,
     << <<"Presentation", "models", "ui_entidad.py">>, "_tpl_ui_model" >>,
     << <<"Presentation", "models", "validators.py">>, "_tpl_validators" >>,
     << <<"Presentation", "commands", "__init__.py">>, "" >>,
     << <<"Presentation", "commands", "comando_base.py">>, "_tpl_comando_base" >>,
     << <<"Presentation", "commands", "comandos_entidad.py">>, "_tpl_comandos" >> >>

\* mutant: the style guide is written at the root instead of under Docs/
Asig_tests_docs5_raiz ==
  << << <<"Tests", "test_presentation", "__init__.py">>, "" >>,
     << <<"Tests", "test_presentation", "test_entidad_viewmodel.py">>, "_tpl_test_viewmodel" >>,
     << <<"guia_estilo.md">>, "_tpl_guia_estilo" >> >>

\* Asig_tests_docs5: lines 604-606
Asig_tests_docs5 ==
  << << <<"Tests", "test_presentation", "__init__.py">>, "" >>,
     << <<"Tests", "test_presentation", "test_entidad_viewmodel.py">>, "_tpl_test_viewmodel" >>,
     << <<"Docs", "guia_estilo.md">>, "_tpl_guia_estilo" >> >>

\* mutant: the level-4 configuration files are added at level 4 only
get_templates_config_solo4(nivel) ==
  IF nivel = 1 THEN Assign(Asig_nivel1)
  ELSE IF nivel = 2 THEN Assign(Asig_nivel2)
  ELSE IF nivel >= 3 THEN
    Assign(Asig_raiz
           \o (IF nivel = 4 THEN Asig_config ELSE <<>>)
           \o Asig_domain \o Asig_application \o Asig_infrastructure \o Asig_ui
           \o (IF nivel >= 4 THEN Asig_tests \o Asig_scripts \o Asig_docs ELSE <<>>)
           \o (IF nivel >= 5 THEN Asig_presentation \o Asig_tests_docs5 ELSE <<>>))
  ELSE <<>>

\* mutant: the tests, scripts and docs are added from level 3 on
get_templates_tests_desde3(nivel) ==
  IF nivel = 1 THEN Assign(Asig_nivel1)
  ELSE IF nivel = 2 THEN Assign(Asig_nivel2)
  ELSE IF nivel >= 3 THEN
    Assign(Asig_raiz
           \o (IF nivel >= 4 THEN Asig_config ELSE <<>>)
           \o Asig_domain \o Asig_application \o Asig_infrastructure \o Asig_ui
           \o (IF nivel >= 3 THEN Asig_tests \o Asig_scripts \o Asig_docs ELSE <<>>)
           \o (IF nivel >= 5 THEN Asig_presentation \o Asig_tests_docs5 ELSE <<>>))
  ELSE <<>>

\* mutant: the last branch is taken for the levels 3, 4 and 5 only
Asignaciones_hasta5(nivel) ==
  IF nivel = 1 THEN Asig_nivel1
  ELSE IF nivel = 2 THEN Asig_nivel2
  ELSE IF nivel \in 3..5 THEN
    Asig_raiz
    \o (IF nivel >= 4 THEN Asig_config ELSE <<>>)
    \o Asig_domain \o Asig_application \o Asig_infrastructure \o Asig_ui
    \o (IF nivel >= 4 THEN Asig_tests \o Asig_scripts \o Asig_docs ELSE <<>>)
    \o (IF nivel >= 5 THEN Asig_presentation \o Asig_tests_docs5 ELSE <<>>)
  ELSE <<>>

(***************************************************************************)
(* Asignaciones(nivel): the statements templates[path] = content that a    *)
(* call get_templates(nivel) executes, in execution order: the if / elif / *)
(* elif chain over the level and, inside the last branch, the nested       *)
(* "if nivel >= 4" and "if nivel >= 5".  No branch is taken for nivel < 1. *)
(***************************************************************************)
Asignaciones(nivel) ==
  IF nivel = 1 THEN Asig_nivel1
  ELSE IF nivel = 2 THEN Asig_nivel2
  ELSE IF nivel >= 3 THEN
    Asig_raiz
    \o (IF nivel >= 4 THEN Asig_config ELSE <<>>)
    \o Asig_domain \o Asig_application \o Asig_infrastructure \o Asig_ui
    \o (IF nivel >= 4 THEN Asig_tests \o Asig_scripts \o Asig_docs ELSE <<>>)
    \o (IF nivel >= 5 THEN Asig_presentation \o Asig_tests_docs5 ELSE <<>>)
  ELSE <<>>

\* mutant: level 4 assigns backend.py again, with the level-2 text
get_templates_backend4(nivel) ==
  Assign(Asignaciones(nivel)
         \o (IF nivel = 4 THEN << << <<"backend.py">>, "nivel2:backend.py" >> >> ELSE <<>>))

(***************************************************************************)
(* get_templates(nivel): the dict that the assignments of the call leave,  *)
(* starting from templates = {}.                                           *)
(***************************************************************************)
get_templates(nivel) == Assign(Asignaciones(nivel))

\* NIVELES: the levels that have a name
NIVELES == 1..5

(***************************************************************************)
(* The filesystem: the set of directories and the regular files with       *)
(* their content.  <<>> is the filesystem root, which always exists.       *)
(***************************************************************************)
VARIABLES
  dirs,       \* set of paths that are directories
  files,      \* function: path of a regular file -> its content
  proc,       \* function: process slot -> state of the generator process
  previo,     \* [nivel, exit] of the last process to exit, if it ran
              \* generar_estructura on an empty destination and no file was
              \* edited since; else SinPrevio
  ediciones,  \* number of user edits so far
  fallos,     \* number of I/O errors so far
  kills,      \* number of processes killed so far
  mig,        \* the generated Scripts/migraciones.py and its database
  vm          \* the generated EntidadViewModel and its backend

vars == <<dirs, files, proc, previo, ediciones, fallos, kills, mig, vm>>

\* the destination the user names (args.ruta / pedir_ruta), resolved
Root == <<"proyectos", "mi_app">>

\* no regular file at all
SinArchivos == [q \in {} |-> ""]

Parent(path) == SubSeq(path, 1, Len(path) - 1)

\* the path and its ancestors, the filesystem root excluded
Chain(path) == {SubSeq(path, 1, n) : n \in 1..Len(path)}

IsFile(path) == path \in DOMAIN files

IsDir(path) == path \in dirs

\* Path.exists()
Exists(path) == IsDir(path) \/ IsFile(path)

\* mutant: mkdir succeeds whatever is at the path
MkdirOk_siempre(path) == TRUE

\* Path.mkdir(parents=True, exist_ok=True): fails when the path or one of
\* its ancestors is a regular file, otherwise creates what is missing
MkdirOk(path) == \A a \in Chain(path) : ~IsFile(a)

MkdirDirs(path) == dirs \cup Chain(path)

\* open(path, "w"): fails on a directory and under a missing parent
OpenOk(path) == ~IsDir(path) /\ IsDir(Parent(path))

\* mutant: opening a file for writing removes the other files
Opened_solo(path) == [q \in {path} |-> ""]

\* the file as open(path, "w") leaves it: created empty, or truncated
Opened(path) == [q \in DOMAIN files \cup {path} |-> IF q = path THEN "" ELSE files[q]]

\* the file after write() and close(): the text, verbatim
Written(path, contenido) ==
  [q \in DOMAIN files \cup {path} |-> IF q = path THEN contenido ELSE files[q]]

\* what a write that does not complete can leave in the file
Truncados(contenido) == IF contenido = "" THEN {""} ELSE {"", "<parcial>"}

(***************************************************************************)
(* A generator process.                                                    *)
(***************************************************************************)
Inactivo ==
  [pc |-> "inicio", nivel |-> 0, forzar |-> FALSE, templates |-> <<>>,
   idx |-> 0, creados |-> 0, omitidos |-> 0, salida |-> <<>>, exit |-> 0,
   resuelto |-> FALSE, antes |-> [dirs |-> {}, files |-> SinArchivos],
   args |-> <<>>]

\* lines the process prints
Linea(tipo, ruta, a, b) == [tipo |-> tipo, ruta |-> ruta, creados |-> a, omitidos |-> b]

\* the process slots: one generator process each, at most
ProcIds == {1, 2}

\* a slot in which no process is ever started
Ausente == [Inactivo EXCEPT !.pc = "ausente"]

Parado(p) == proc[p].pc \in {"inicio", "terminado", "ausente"}

SinPrevio == [nivel |-> 0, exit |-> 0]

\* nothing under the destination, which may itself be missing
Vacio(fs) == fs.files = SinArchivos /\ fs.dirs \subseteq {<<>>} \cup Chain(Root)

EnBucle(p) == proc[p].pc \in {"mkdir", "existe", "abrir", "volcar"}

\* the entry of the loop the process is at
RutaRelativa(p) == proc[p].templates[proc[p].idx][1]

Contenido(p) == proc[p].templates[proc[p].idx][2]

\* archivo = ruta / ruta_relativa
Archivo(p) == Root \o RutaRelativa(p)

\* the next iteration of the for loop, or the code after it
Siguiente(p) == IF proc[p].idx < Len(proc[p].templates) THEN "mkdir" ELSE "resumen"

\* mutant: the error is caught inside the loop, which goes on to the next entry
Excepcion_capturada(p) ==
  [proc[p] EXCEPT !.idx = @ + 1, !.pc = Siguiente(p)]

\* mutant: the totals are printed in a finally clause before the error leaves
Excepcion_con_resumen(p) ==
  [proc[p] EXCEPT !.pc = "terminado", !.exit = 1,
                  !.salida = @ \o <<Linea("resumen", <<>>, proc[p].creados, proc[p].omitidos),
                                    Linea("traceback", <<>>, 0, 0)>>]

\* an uncaught exception: traceback on stderr, exit status 1
Excepcion(p) ==
  [proc[p] EXCEPT !.pc = "terminado", !.exit = 1,
                  !.salida = Append(@, Linea("traceback", <<>>, 0, 0))]

(***************************************************************************)
(* main: the command line.  args.nivel is <<>> (absent) or <<n>>;          *)
(* args.ruta is "none" (absent), "vacia" (the empty string) or "dada" (a   *)
(* path, which resolves to Root).  ruta is the second positional, so it is *)
(* never present without nivel.                                            *)
(***************************************************************************)
ArgNiveles == {<<>>} \cup {<<n>> : n \in 0..6}

ArgRutas == {"none", "vacia", "dada"}

\* mutant: the positional has type=int and no choices
ArgsValidos_sin_choices(argNivel) == TRUE

\* argparse: type=int, choices=range(1, 6)
ArgsValidos(argNivel) == argNivel = <<>> \/ argNivel[1] \in 1..5

\* mutant: the direct mode is taken when the level alone is given
ModoDirecto_solo_nivel(argNivel, argRuta) == argNivel # <<>> /\ argNivel[1] # 0

\* "if args.nivel and args.ruta": both present and truthy
ModoDirecto(argNivel, argRuta) == argNivel # <<>> /\ argNivel[1] # 0 /\ argRuta = "dada"

\* the process after parse_args and the choice of the mode
Invocado(argNivel, argRuta, forzar) ==
  IF ~ArgsValidos(argNivel)
  THEN [Inactivo EXCEPT !.pc = "terminado", !.exit = 2, !.forzar = forzar,
                        !.salida = <<Linea("uso", <<>>, 0, 0)>>]
  ELSE IF ModoDirecto(argNivel, argRuta)
  THEN [Inactivo EXCEPT !.pc = "mkdir_raiz", !.nivel = argNivel[1],
                        !.forzar = forzar]
  ELSE [Inactivo EXCEPT !.pc = "pedir_nivel", !.forzar = forzar]

Invocar(p) ==
  /\ proc[p].pc = "inicio"
  /\ \E argNivel \in ArgNiveles, argRuta \in ArgRutas, forzar \in BOOLEAN :
       /\ argNivel = <<>> => argRuta = "none"
       /\ proc' = [proc EXCEPT ![p] = Invocado(argNivel, argRuta, forzar)]
  /\ UNCHANGED <<dirs, files, previo, ediciones, fallos, kills, mig, vm>>

\* the same invocation, with the command line kept in args for reference
InvocarModo(p) ==
  /\ proc[p].pc = "inicio"
  /\ \E argNivel \in ArgNiveles, argRuta \in ArgRutas, forzar \in BOOLEAN :
       /\ argNivel = <<>> => argRuta = "none"
       /\ proc' = [proc EXCEPT ![p] =
            [Invocado(argNivel, argRuta, forzar) EXCEPT !.args = <<argNivel, argRuta>>]]
  /\ UNCHANGED <<dirs, files, previo, ediciones, fallos, kills, mig, vm>>

\* mutant: a cancelled session ends with sys.exit(1)
Cancelado_exit1(p) ==
  [proc[p] EXCEPT !.pc = "terminado", !.exit = 1,
                  !.salida = Append(@, Linea("cancelado", <<>>, 0, 0))]

\* sys.exit(0) after the cancellation notice
Cancelado(p) ==
  [proc[p] EXCEPT !.pc = "terminado", !.exit = 0,
                  !.salida = Append(@, Linea("cancelado", <<>>, 0, 0))]

\* what the user can type at the level prompt
EntradasNivel == {<<"eof">>, <<"texto">>} \cup {<<"int", n>> : n \in 0..6}

pedir_nivel(p) ==
  /\ proc[p].pc = "pedir_nivel"
  /\ \E entrada \in EntradasNivel :
       proc' = [proc EXCEPT ![p] =
         IF entrada[1] = "eof" THEN Cancelado(p)
         ELSE IF entrada[1] = "int" /\ 1 <= entrada[2] /\ entrada[2] <= 5
         THEN [@ EXCEPT !.pc = "pedir_ruta", !.nivel = entrada[2]]
         ELSE @]
  /\ UNCHANGED <<dirs, files, previo, ediciones, fallos, kills, mig, vm>>

pedir_ruta(p) ==
  /\ proc[p].pc = "pedir_ruta"
  /\ \E entrada \in {"eof", "vacia", "dada"} :
       proc' = [proc EXCEPT ![p] =
         IF entrada = "eof" THEN Cancelado(p)
         ELSE IF entrada = "dada" THEN [@ EXCEPT !.pc = "confirmar"]
         ELSE @]
  /\ UNCHANGED <<dirs, files, previo, ediciones, fallos, kills, mig, vm>>

confirmar(p) ==
  /\ proc[p].pc = "confirmar"
  /\ \E resp \in {"eof", "si", "no"} :
       proc' = [proc EXCEPT ![p] =
         IF resp = "si" THEN [@ EXCEPT !.pc = "mkdir_raiz"] ELSE Cancelado(p)]
  /\ UNCHANGED <<dirs, files, previo, ediciones, fallos, kills, mig, vm>>

\* mutant: main goes to generar_estructura without creating the destination
MkdirRaiz_omitido(p) ==
  /\ proc[p].pc = "mkdir_raiz"
  /\ proc' = [proc EXCEPT ![p].pc = "resolver"]
  /\ UNCHANGED <<dirs, files, previo, ediciones, fallos, kills, mig, vm>>

\* ruta.mkdir(parents=True, exist_ok=True)
MkdirRaiz(p) ==
  /\ proc[p].pc = "mkdir_raiz"
  /\ IF MkdirOk(Root)
     THEN /\ dirs' = MkdirDirs(Root)
          /\ proc' = [proc EXCEPT ![p].pc = "resolver"]
     ELSE /\ dirs' = dirs
          /\ proc' = [proc EXCEPT ![p] = Excepcion(p)]
  /\ UNCHANGED <<files, previo, ediciones, fallos, kills, mig, vm>>

(***************************************************************************)
(* generar_estructura(nivel, ruta)                                         *)
(***************************************************************************)
\* templates = get_templates(nivel); creados = 0; omitidos = 0
Resolver(p) ==
  /\ proc[p].pc = "resolver"
  /\ LET t == get_templates(proc[p].nivel) IN
       proc' = [proc EXCEPT ![p] =
         [@ EXCEPT !.templates = t, !.creados = 0, !.omitidos = 0, !.idx = 1,
                   !.resuelto = TRUE, !.antes = [dirs |-> dirs, files |-> files],
                   !.pc = IF Len(t) = 0 THEN "resumen" ELSE "mkdir"]]
  /\ UNCHANGED <<dirs, files, previo, ediciones, fallos, kills, mig, vm>>

\* mutant: the loop goes to the existence check without the mkdir
MkdirPadre_sin_mkdir(p) ==
  /\ proc[p].pc = "mkdir"
  /\ proc' = [proc EXCEPT ![p].pc = "existe"]
  /\ UNCHANGED <<dirs, files, previo, ediciones, fallos, kills, mig, vm>>

\* archivo.parent.mkdir(parents=True, exist_ok=True)
MkdirPadre(p) ==
  /\ proc[p].pc = "mkdir"
  /\ IF MkdirOk(Parent(Archivo(p)))
     THEN /\ dirs' = MkdirDirs(Parent(Archivo(p)))
          /\ proc' = [proc EXCEPT ![p].pc = "existe"]
     ELSE /\ dirs' = dirs
          /\ proc' = [proc EXCEPT ![p] = Excepcion(p)]
  /\ UNCHANGED <<files, previo, ediciones, fallos, kills, mig, vm>>

\* mutant: a skipped entry is reported but not counted
Omitir_sin_contar(p) ==
  [proc[p] EXCEPT !.salida = Append(@, Linea("omitido", RutaRelativa(p), 0, 0)),
                  !.idx = @ + 1, !.pc = Siguiente(p)]

\* "if archivo.exists()": the branch that skips the entry, or on to the write
Omitir(p) ==
  [proc[p] EXCEPT !.omitidos = @ + 1,
                  !.salida = Append(@, Linea("omitido", RutaRelativa(p), 0, 0)),
                  !.idx = @ + 1, !.pc = Siguiente(p)]

\* mutant: the existence check is dropped and every entry is written
Existe_sin_comprobar(p) ==
  /\ proc[p].pc = "existe"
  /\ proc' = [proc EXCEPT ![p].pc = "abrir"]
  /\ UNCHANGED <<dirs, files, previo, ediciones, fallos, kills, mig, vm>>

Existe(p) ==
  /\ proc[p].pc = "existe"
  /\ proc' = [proc EXCEPT ![p] =
       IF Exists(Archivo(p)) THEN Omitir(p) ELSE [@ EXCEPT !.pc = "abrir"]]
  /\ UNCHANGED <<dirs, files, previo, ediciones, fallos, kills, mig, vm>>

\* mutant: the file is opened with mode "x", which fails when it exists
Abrir_exclusivo(p) ==
  /\ proc[p].pc = "abrir"
  /\ IF OpenOk(Archivo(p)) /\ ~IsFile(Archivo(p))
     THEN /\ files' = Opened(Archivo(p))
          /\ proc' = [proc EXCEPT ![p].pc = "volcar"]
     ELSE /\ files' = files
          /\ proc' = [proc EXCEPT ![p] = Excepcion(p)]
  /\ UNCHANGED <<dirs, previo, ediciones, fallos, kills, mig, vm>>

\* archivo.write_text(contenido): open(archivo, "w") ...
Abrir(p) ==
  /\ proc[p].pc = "abrir"
  /\ IF OpenOk(Archivo(p))
     THEN /\ files' = Opened(Archivo(p))
          /\ proc' = [proc EXCEPT ![p].pc = "volcar"]
     ELSE /\ files' = files
          /\ proc' = [proc EXCEPT ![p] = Excepcion(p)]
  /\ UNCHANGED <<dirs, previo, ediciones, fallos, kills, mig, vm>>

\* mutant: the status line of a created file goes in front of the earlier ones
Creado_al_frente(p) ==
  [proc[p] EXCEPT !.creados = @ + 1,
                  !.salida = <<Linea("creado", RutaRelativa(p), 0, 0)>> \o @,
                  !.idx = @ + 1, !.pc = Siguiente(p)]

\* mutant: a created file is reported but not counted
Creado_sin_contar(p) ==
  [proc[p] EXCEPT !.salida = Append(@, Linea("creado", RutaRelativa(p), 0, 0)),
                  !.idx = @ + 1, !.pc = Siguiente(p)]

\* ... write(contenido) and close(); creados += 1; the status line
Creado(p) ==
  [proc[p] EXCEPT !.creados = @ + 1,
                  !.salida = Append(@, Linea("creado", RutaRelativa(p), 0, 0)),
                  !.idx = @ + 1, !.pc = Siguiente(p)]

\* mutant: the file is closed with nothing written to it
Volcar_sin_texto(p) ==
  /\ proc[p].pc = "volcar"
  /\ proc' = [proc EXCEPT ![p] = Creado(p)]
  /\ UNCHANGED <<dirs, files, previo, ediciones, fallos, kills, mig, vm>>

Volcar(p) ==
  /\ proc[p].pc = "volcar"
  /\ files' = Written(Archivo(p), Contenido(p))
  /\ proc' = [proc EXCEPT ![p] = Creado(p)]
  /\ UNCHANGED <<dirs, previo, ediciones, fallos, kills, mig, vm>>

\* the totals after the loop: "N archivos creados", and "| M omitidos" if M > 0
Resumen(p) ==
  /\ proc[p].pc = "resumen"
  /\ proc' = [proc EXCEPT ![p] =
       [@ EXCEPT !.pc = "exito",
                 !.salida = Append(@, Linea("resumen", <<>>, proc[p].creados, proc[p].omitidos))]]
  /\ UNCHANGED <<dirs, files, previo, ediciones, fallos, kills, mig, vm>>

\* back in main: "Proyecto generado correctamente", the next steps, exit 0
Exito(p) ==
  /\ proc[p].pc = "exito"
  /\ proc' = [proc EXCEPT ![p] =
       [@ EXCEPT !.pc = "terminado", !.exit = 0,
                 !.salida = Append(@, Linea("generado", <<>>, 0, 0))]]
  /\ UNCHANGED <<dirs, files, previo, ediciones, fallos, kills, mig, vm>>

\* the process is gone; its slot can hold the next invocation
Terminar(p) ==
  /\ proc[p].pc = "terminado"
  /\ previo' = IF proc[p].resuelto /\ Vacio(proc[p].antes)
               THEN [nivel |-> proc[p].nivel, exit |-> proc[p].exit]
               ELSE SinPrevio
  /\ proc' = [proc EXCEPT ![p] = Inactivo]
  /\ UNCHANGED <<dirs, files, ediciones, fallos, kills, mig, vm>>

\* one step of the program
Paso(p) ==
  \/ Invocar(p) \/ pedir_nivel(p) \/ pedir_ruta(p) \/ confirmar(p)
  \/ MkdirRaiz(p) \/ Resolver(p) \/ MkdirPadre(p) \/ Existe(p)
  \/ Abrir(p) \/ Volcar(p) \/ Resumen(p) \/ Exito(p) \/ Terminar(p)

(***************************************************************************)
(* The environment: I/O errors, the user's editor, and kill.               *)
(***************************************************************************)
\* the entries at which the environment interferes (an I/O error, a kill)
FaultPaths ==
  { <<"proyecto.py">>, <<"frontend.py">>, <<"Domain", "__init__.py">> }

\* the template paths the user edits by hand
EditPaths ==
  { <<"proyecto.py">>, <<"backend.py">>, <<"Domain", "entidades", "entidad.py">> }

\* mkdir fails (permission denied, disk full) at some missing directory of
\* the chain, after creating the ones above it: for the destination itself
FallaMkdirRaiz(p) ==
  /\ proc[p].pc = "mkdir_raiz"
  /\ fallos < MaxFaults
  /\ ~IsDir(Root)
  /\ \E n \in 0..(Len(Root) - 1) :
       /\ MkdirOk(SubSeq(Root, 1, n))
       /\ ~IsDir(SubSeq(Root, 1, n + 1))
       /\ dirs' = MkdirDirs(SubSeq(Root, 1, n))
  /\ proc' = [proc EXCEPT ![p] = Excepcion(p)]
  /\ fallos' = fallos + 1
  /\ UNCHANGED <<files, previo, ediciones, kills, mig, vm>>

\* ... and for the parent of an entry
FallaMkdir(p) ==
  /\ proc[p].pc = "mkdir"
  /\ fallos < MaxFaults
  /\ RutaRelativa(p) \in FaultPaths
  /\ ~IsDir(Parent(Archivo(p)))
  /\ \E n \in 0..(Len(Archivo(p)) - 2) :
       /\ MkdirOk(SubSeq(Archivo(p), 1, n))
       /\ ~IsDir(SubSeq(Archivo(p), 1, n + 1))
       /\ dirs' = MkdirDirs(SubSeq(Archivo(p), 1, n))
  /\ proc' = [proc EXCEPT ![p] = Excepcion(p)]
  /\ fallos' = fallos + 1
  /\ UNCHANGED <<files, previo, ediciones, kills, mig, vm>>

\* open fails (permission denied): no file is created
FallaAbrir(p) ==
  /\ proc[p].pc = "abrir"
  /\ fallos < MaxFaults
  /\ RutaRelativa(p) \in FaultPaths
  /\ proc' = [proc EXCEPT ![p] = Excepcion(p)]
  /\ fallos' = fallos + 1
  /\ UNCHANGED <<dirs, files, previo, ediciones, kills, mig, vm>>

\* write fails (disk full): the file stays, incomplete
FallaVolcar(p) ==
  /\ proc[p].pc = "volcar"
  /\ fallos < MaxFaults
  /\ RutaRelativa(p) \in FaultPaths
  /\ \E c \in Truncados(Contenido(p)) : files' = Written(Archivo(p), c)
  /\ proc' = [proc EXCEPT ![p] = Excepcion(p)]
  /\ fallos' = fallos + 1
  /\ UNCHANGED <<dirs, previo, ediciones, kills, mig, vm>>

Falla(p) == FallaMkdirRaiz(p) \/ FallaMkdir(p) \/ FallaAbrir(p) \/ FallaVolcar(p)

\* between two runs, the user changes a generated file
Editar ==
  /\ \A p \in ProcIds : proc[p].pc \in {"inicio", "ausente"}
  /\ ediciones < MaxEdits
  /\ \E r \in EditPaths :
       /\ IsFile(Root \o r)
       /\ files[Root \o r] # "editado"
       /\ files' = Written(Root \o r, "editado")
  /\ ediciones' = ediciones + 1
  /\ previo' = SinPrevio
  /\ UNCHANGED <<dirs, proc, fallos, kills, mig, vm>>

\* the directory paths of the registry at which the user puts a regular file
BlockPaths ==
  { <<"Domain">>, <<"Domain", "entidades">>, <<"Docs">> }

\* between two runs, the user creates a regular file where the registry has
\* a directory, with the directories above it (mkdir -p, then an editor)
Bloquear ==
  /\ \A p \in ProcIds : proc[p].pc \in {"inicio", "ausente"}
  /\ ediciones < MaxEdits
  /\ \E r \in BlockPaths :
       /\ ~Exists(Root \o r)
       /\ \A a \in Chain(Parent(Root \o r)) : ~IsFile(a)
       /\ dirs' = dirs \cup Chain(Parent(Root \o r))
       /\ files' = Written(Root \o r, "usuario")
  /\ ediciones' = ediciones + 1
  /\ previo' = SinPrevio
  /\ UNCHANGED <<proc, fallos, kills, mig, vm>>

\* the process is terminated (SIGKILL): no handler runs, exit status 137
Matar(p) ==
  /\ ~Parado(p)
  /\ EnBucle(p) => RutaRelativa(p) \in FaultPaths
  /\ kills < MaxKills
  /\ kills' = kills + 1
  /\ IF proc[p].pc = "volcar"
     THEN \E c \in Truncados(Contenido(p)) : files' = Written(Archivo(p), c)
     ELSE files' = files
  /\ proc' = [proc EXCEPT ![p] = [@ EXCEPT !.pc = "terminado", !.exit = 137]]
  /\ UNCHANGED <<dirs, previo, ediciones, fallos, mig, vm>>

(***************************************************************************)
(* The generated Scripts/migraciones.py (level 4 and above).  A migration  *)
(* is named by the number its name starts with: 1 is "001_crear_entidades". *)
(***************************************************************************)
\* the list as generated
MIGRACIONES == << 1 >>

Rango(s) == { s[j] : j \in 1..Len(s) }

\* the script is not running; the database file has no tables yet
MigInicial ==
  [ lista      |-> MIGRACIONES,  \* MIGRACIONES of the script on disk
    tabla      |-> FALSE,        \* table _migraciones exists
    ledger     |-> <<>>,         \* rows of _migraciones, in insertion order
    ejecutadas |-> <<>>,         \* every executescript(sql) made so far
    pc         |-> "fuera",
    i          |-> 0,            \* position of the for loop
    aplicadas  |-> {},           \* the set read before the loop
    salida     |-> <<>> ]        \* lines printed by the current or last run

MigQuietos ==
  UNCHANGED <<dirs, files, proc, previo, ediciones, fallos, kills, vm>>

\* the developer appends the next migration to MIGRACIONES
AgregarMigracion ==
  /\ mig.pc = "fuera"
  /\ Len(mig.lista) < MaxMigraciones
  /\ mig' = [mig EXCEPT !.lista = Append(@, Len(@) + 1)]
  /\ MigQuietos

\* its variant that does not read the ledger
AplicarInicio_sin_leer ==
  /\ mig.pc = "fuera"
  /\ mig' = [mig EXCEPT !.tabla = TRUE, !.aplicadas = {},
                        !.pc = "bucle", !.i = 1, !.salida = <<>>]
  /\ MigQuietos

\* 'init': connect, CREATE TABLE IF NOT EXISTS _migraciones, commit, and
\* read the names of the ledger once
AplicarInicio ==
  /\ mig.pc = "fuera"
  /\ mig' = [mig EXCEPT !.tabla = TRUE, !.aplicadas = Rango(mig.ledger),
                        !.pc = "bucle", !.i = 1, !.salida = <<>>]
  /\ MigQuietos

\* one turn of the for loop up to executescript, or its else branch
AplicarPaso ==
  /\ mig.pc = "bucle"
  /\ mig.i <= Len(mig.lista)
  /\ LET nombre == mig.lista[mig.i] IN
       IF nombre \notin mig.aplicadas
         THEN mig' = [mig EXCEPT
                        !.salida = Append(@, <<"aplicando", nombre>>),
                        !.ejecutadas = Append(@, nombre),
                        !.pc = "registrar"]
         ELSE mig' = [mig EXCEPT
                        !.salida = Append(@, <<"ya_aplicada", nombre>>),
                        !.i = @ + 1]
  /\ MigQuietos

\* INSERT INTO _migraciones and commit; nombre is the primary key
AplicarRegistro ==
  /\ mig.pc = "registrar"
  /\ LET nombre == mig.lista[mig.i] IN
       IF nombre \in Rango(mig.ledger)
         THEN mig' = [mig EXCEPT !.pc = "error"]
         ELSE mig' = [mig EXCEPT !.ledger = Append(@, nombre),
                                 !.i = @ + 1, !.pc = "bucle"]
  /\ MigQuietos

\* the list is exhausted: close and report
AplicarFin ==
  /\ mig.pc = "bucle"
  /\ mig.i > Len(mig.lista)
  /\ mig' = [mig EXCEPT !.salida = Append(@, <<"completadas", 0>>),
                        !.pc = "fuera"]
  /\ MigQuietos

(***************************************************************************)
(* The generated Presentation/viewmodels/entidad_viewmodel.py (level 5),   *)
(* with ViewModelBase and UIEntidad.  A name is kept as its length and the *)
(* length of its strip(); a message as the format used and its number.     *)
(***************************************************************************)
\* "", "x", two blanks, "ab", and a name of 101 characters
Nombres ==
  { [largo |-> 0, neto |-> 0], [largo |-> 1, neto |-> 1],
    [largo |-> 2, neto |-> 0], [largo |-> 2, neto |-> 2],
    [largo |-> 101, neto |-> 101] }

NombreVacio == [largo |-> 0, neto |-> 0]
NombreGuardado == [largo |-> 2, neto |-> 2]

SinErrores == [c \in {} |-> ""]

\* UIEntidad.validar
validar(nombre) ==
  LET e1 == IF nombre.largo = 0 \/ nombre.neto < 2
              THEN [c \in {"nombre"} |-> "minimo"]
              ELSE SinErrores
  IN  IF nombre.largo > 100
        THEN [c \in DOMAIN e1 \cup {"nombre"} |->
                IF c = "nombre" THEN "maximo" ELSE e1[c]]
        ELSE e1

\* ViewModelBase.agregar_error, for each item of a dict
agregar_errores(errores, nuevos) ==
  [c \in DOMAIN errores \cup DOMAIN nuevos |->
     IF c \in DOMAIN nuevos THEN nuevos[c] ELSE errores[c]]

tiene_errores(errores) == DOMAIN errores # {}

Mensaje(formato, n) == <<formato, n>>

SinSeleccion == [hay |-> FALSE, id |-> 0, nombre |-> NombreVacio]

\* EntidadViewModel(backend) on an empty backend: the constructor is inside
\* cargar(), waiting for backend.obtener_entidades()
VmInicial ==
  [ backend   |-> {},            \* ids of the entities the backend holds
    entidades |-> {},            \* ids of _entidades
    sel       |-> SinSeleccion,  \* _entidad_seleccionada (id 0: None)
    errores   |-> SinErrores,    \* _errores
    ocupado   |-> TRUE,
    mensaje   |-> Mensaje("Cargando...", 0),
    modo      |-> FALSE,         \* _modo_edicion
    op        |-> "__init__",    \* the last thing the view did
    pc        |-> "cargar",      \* "vista": no method is running
    llamadas  |-> <<"obtener_entidades">>,  \* backend calls of this method
    fallo     |-> "no",          \* backend method that raised in it
    ret       |-> "None" ]       \* what the last method returned

VmQuietos ==
  UNCHANGED <<dirs, files, proc, previo, ediciones, fallos, kills, mig>>

\* cargar() up to backend.obtener_entidades(), called from pc
EnCargar(v, pc) ==
  [v EXCEPT !.ocupado = TRUE, !.mensaje = Mensaje("Cargando...", 0),
            !.llamadas = Append(@, "obtener_entidades"), !.pc = pc]

nueva ==
  /\ vm.pc = "vista"
  /\ vm' = [vm EXCEPT !.sel = [hay |-> TRUE, id |-> 0, nombre |-> NombreVacio],
                      !.modo = TRUE, !.op = "nueva"]
  /\ VmQuietos

\* the view picks an entity of the list, or none
Seleccionar ==
  /\ vm.pc = "vista"
  /\ \E e \in vm.entidades \cup {0} :
       vm' = [vm EXCEPT !.op = "seleccionar",
                !.sel = IF e = 0 THEN SinSeleccion
                        ELSE [hay |-> TRUE, id |-> e, nombre |-> NombreGuardado]]
  /\ VmQuietos

\* the view writes the name of the selected entity
Escribir ==
  /\ vm.pc = "vista"
  /\ vm.sel.hay
  /\ \E nombre \in Nombres :
       vm' = [vm EXCEPT !.sel.nombre = nombre, !.op = "escribir"]
  /\ VmQuietos

cargar ==
  /\ vm.pc = "vista"
  /\ vm' = EnCargar([vm EXCEPT !.op = "cargar", !.llamadas = <<>>,
                               !.fallo = "no"], "cargar")
  /\ VmQuietos

\* its variant that does not validate
guardar_sin_validar ==
  /\ vm.pc = "vista"
  /\ LET v == [vm EXCEPT !.op = "guardar", !.llamadas = <<>>, !.fallo = "no"]
     IN  IF ~vm.sel.hay
           THEN vm' = [v EXCEPT !.ret = "False"]
           ELSE LET g == [v EXCEPT !.errores = SinErrores, !.ocupado = TRUE,
                                   !.mensaje = Mensaje("Guardando...", 0)]
                IN  IF vm.sel.id # 0
                      THEN vm' = EnCargar(
                             [g EXCEPT !.modo = FALSE,
                                !.mensaje = Mensaje("Guardado correctamente.", 0)],
                             "guardar_cargar")
                      ELSE vm' = [g EXCEPT !.pc = "guardar_crear",
                                    !.llamadas = Append(@, "crear_entidad")]
  /\ VmQuietos

\* guardar() up to its return or its first call of the backend
guardar ==
  /\ vm.pc = "vista"
  /\ LET v == [vm EXCEPT !.op = "guardar", !.llamadas = <<>>, !.fallo = "no"]
     IN  IF ~vm.sel.hay
           THEN vm' = [v EXCEPT !.ret = "False"]
           ELSE IF tiene_errores(validar(vm.sel.nombre))
           THEN vm' = [v EXCEPT !.ret = "False",
                         !.errores = agregar_errores(@, validar(vm.sel.nombre))]
           ELSE LET g == [v EXCEPT !.errores = SinErrores, !.ocupado = TRUE,
                                   !.mensaje = Mensaje("Guardando...", 0)]
                IN  IF vm.sel.id # 0
                      THEN vm' = EnCargar(
                             [g EXCEPT !.modo = FALSE,
                                !.mensaje = Mensaje("Guardado correctamente.", 0)],
                             "guardar_cargar")
                      ELSE vm' = [g EXCEPT !.pc = "guardar_crear",
                                    !.llamadas = Append(@, "crear_entidad")]
  /\ VmQuietos

\* eliminar_seleccionada() up to its return or its call of the backend
eliminar_seleccionada ==
  /\ vm.pc = "vista"
  /\ LET v == [vm EXCEPT !.op = "eliminar_seleccionada", !.llamadas = <<>>,
                         !.fallo = "no"]
     IN  IF ~vm.sel.hay \/ vm.sel.id = 0
           THEN vm' = [v EXCEPT !.ret = "False"]
           ELSE vm' = [v EXCEPT !.ocupado = TRUE, !.pc = "eliminar",
                         !.llamadas = Append(@, "eliminar_entidad")]
  /\ VmQuietos

\* what the method that called cargar() returns after it
TrasCargar(pc) == IF pc = "cargar" THEN "None" ELSE "True"

\* backend.obtener_entidades() returns or raises: the rest of cargar() and
\* of the method that called it
ResponderObtener ==
  /\ vm.pc \in {"cargar", "guardar_cargar", "eliminar_cargar"}
  /\ \E ok \in BOOLEAN :
       vm' = IF ok
               THEN [vm EXCEPT !.entidades = vm.backend,
                      !.mensaje = Mensaje("registros cargados.",
                                          Cardinality(vm.backend)),
                      !.ocupado = FALSE, !.pc = "vista",
                      !.ret = TrasCargar(vm.pc)]
               ELSE [vm EXCEPT !.mensaje = Mensaje("Error al cargar", 0),
                      !.fallo = "obtener_entidades",
                      !.ocupado = FALSE, !.pc = "vista",
                      !.ret = TrasCargar(vm.pc)]
  /\ VmQuietos

\* backend.crear_entidad() returns a dto with a new id, or raises
ResponderCrear ==
  /\ vm.pc = "guardar_crear"
  /\ \E id \in (1..MaxEntidades) \cup {0} :
       /\ id \notin vm.backend
       /\ vm' = IF id # 0
                  THEN EnCargar(
                         [vm EXCEPT !.backend = @ \cup {id}, !.sel.id = id,
                            !.mensaje = Mensaje("Guardado correctamente.", 0),
                            !.modo = FALSE],
                         "guardar_cargar")
                  ELSE [vm EXCEPT !.mensaje = Mensaje("Error al guardar", 0),
                          !.fallo = "crear_entidad", !.ret = "False",
                          !.ocupado = FALSE, !.pc = "vista"]
  /\ VmQuietos

\* backend.eliminar_entidad(id) returns or raises
ResponderEliminar ==
  /\ vm.pc = "eliminar"
  /\ \E ok \in BOOLEAN :
       vm' = IF ok
               THEN EnCargar(
                      [vm EXCEPT !.backend = @ \ {vm.sel.id},
                         !.sel = SinSeleccion,
                         !.mensaje = Mensaje("Eliminado correctamente.", 0)],
                      "eliminar_cargar")
               ELSE [vm EXCEPT !.mensaje = Mensaje("Error al eliminar", 0),
                       !.fallo = "eliminar_entidad", !.ret = "False",
                       !.ocupado = FALSE, !.pc = "vista"]
  /\ VmQuietos

(***************************************************************************)
(* Specifications.                                                         *)
(***************************************************************************)
\* nothing exists but the filesystem root; no generator has run
Init ==
  /\ dirs = {<<>>}
  /\ files = SinArchivos
  /\ proc = [p \in ProcIds |-> IF p = 1 THEN Inactivo ELSE Ausente]
  /\ previo = SinPrevio
  /\ ediciones = 0
  /\ fallos = 0
  /\ kills = 0
  /\ mig = MigInicial
  /\ vm = VmInicial

\* sequential invocations and user edits between them
Next ==
  \/ \E p \in ProcIds : Paso(p)
  \/ Editar

Spec == Init /\ [][Next]_vars

\* sequential invocations that meet I/O errors
NextFallo ==
  \/ \E p \in ProcIds : Paso(p)
  \/ \E p \in ProcIds : Falla(p)

SpecFallo == Init /\ [][NextFallo]_vars

\* sequential invocations, any of which may be killed
NextKill ==
  \/ \E p \in ProcIds : Paso(p)
  \/ \E p \in ProcIds : Matar(p)

SpecKill == Init /\ [][NextKill]_vars

\* sequential invocations on a destination in which the user puts files
NextBloqueo ==
  \/ \E p \in ProcIds : Paso(p)
  \/ Bloquear

SpecBloqueo == Init /\ [][NextBloqueo]_vars

\* one invocation after another, each up to the resolution of its templates,
\* with the command line of each on record
NextModo ==
  \E p \in ProcIds :
    \/ InvocarModo(p) \/ pedir_nivel(p) \/ pedir_ruta(p) \/ confirmar(p)
    \/ MkdirRaiz(p) \/ Resolver(p) \/ Terminar(p)

SpecModo == Init /\ [][NextModo]_vars

\* two invocations side by side, each up to the resolution of its templates
InitReg ==
  /\ dirs = {<<>>}
  /\ files = SinArchivos
  /\ proc = [p \in ProcIds |-> Inactivo]
  /\ previo = SinPrevio
  /\ ediciones = 0
  /\ fallos = 0
  /\ kills = 0
  /\ mig = MigInicial
  /\ vm = VmInicial

NextReg ==
  \E p \in ProcIds :
    \/ Invocar(p) \/ pedir_nivel(p) \/ pedir_ruta(p) \/ confirmar(p)
    \/ MkdirRaiz(p) \/ Resolver(p) \/ Terminar(p)

SpecReg == InitReg /\ [][NextReg]_vars

\* two invocations in direct mode that run at the same time on the same
\* destination, one step of either at a time.  The first runs level 1 or 2
\* and the second a level from 2 to 5, so that the two share at most
\* backend.py (two runs of a level from 3 on share every path, and each
\* shared path multiplies the outcomes by three).
NivelesCarrera(p) == IF p = 1 THEN {1, 2} ELSE 2..5

InvocarCarrera(p) ==
  /\ Invocar(p)
  /\ proc'[p].pc = "mkdir_raiz"
  /\ proc'[p].nivel \in NivelesCarrera(p)
  /\ ~proc'[p].forzar

NextCarrera ==
  \E p \in ProcIds :
    \/ InvocarCarrera(p) \/ MkdirRaiz(p) \/ Resolver(p) \/ MkdirPadre(p)
    \/ Existe(p) \/ Abrir(p) \/ Volcar(p) \/ Resumen(p) \/ Exito(p)

SpecCarrera == InitReg /\ [][NextCarrera]_vars

\* generar_estructura called as a function, with any integer as level and
\* the destination as ruta, one call after another
NivelesLlamada == (0 - 1)..7

Llamar(p) ==
  /\ proc[p].pc = "inicio"
  /\ \E nivel \in NivelesLlamada :
       proc' = [proc EXCEPT ![p] = [Inactivo EXCEPT !.pc = "resolver", !.nivel = nivel]]
  /\ UNCHANGED <<dirs, files, previo, ediciones, fallos, kills, mig, vm>>

\* the function returns None to its caller
Retornar(p) ==
  /\ proc[p].pc = "exito"
  /\ proc' = [proc EXCEPT ![p] = [@ EXCEPT !.pc = "terminado", !.exit = 0]]
  /\ UNCHANGED <<dirs, files, previo, ediciones, fallos, kills, mig, vm>>

NextLlamada ==
  \E p \in ProcIds :
    \/ Llamar(p) \/ Resolver(p) \/ MkdirPadre(p) \/ Existe(p) \/ Abrir(p)
    \/ Volcar(p) \/ Resumen(p) \/ Retornar(p) \/ Terminar(p)

SpecLlamada == Init /\ [][NextLlamada]_vars

\* 'init' runs of the generated migration script, one after another, the
\* developer extending MIGRACIONES between them
NextMigraciones ==
  \/ AgregarMigracion
  \/ AplicarInicio
  \/ AplicarPaso
  \/ AplicarRegistro
  \/ AplicarFin

SpecMigraciones == Init /\ [][NextMigraciones]_vars

\* a view driving the generated view-model, over a backend that may raise
NextViewModel ==
  \/ nueva
  \/ Seleccionar
  \/ Escribir
  \/ cargar
  \/ guardar
  \/ eliminar_seleccionada
  \/ ResponderObtener
  \/ ResponderCrear
  \/ ResponderEliminar

SpecViewModel == Init /\ [][NextViewModel]_vars

(***************************************************************************)
(* Properties.                                                             *)
(***************************************************************************)
\* the entries of process p handled so far by the loop
Procesadas(p) == 1..(proc[p].idx - 1)

RutaDe(p, j) == proc[p].templates[j][1]

ContenidoDe(p, j) == proc[p].templates[j][2]

ArchivoDe(p, j) == Root \o RutaDe(p, j)

\* the process printed a status line of this kind for the path
Reportado(p, tipo, ruta) ==
  \E n \in 1..Len(proc[p].salida) :
    proc[p].salida[n].tipo = tipo /\ proc[p].salida[n].ruta = ruta

\* the path existed when generar_estructura began
ExistiaAntes(p, j) ==
  ArchivoDe(p, j) \in proc[p].antes.dirs \/ ArchivoDe(p, j) \in DOMAIN proc[p].antes.files

\* the run ended normally, through the totals and the closing message
Completo(p) == proc[p].pc = "terminado" /\ proc[p].resuelto /\ proc[p].exit = 0

\* C1: non-destructive overwrite.  In every run of a sequence of runs, an
\* entry whose path already existed is not written: the file holds the
\* content it had before the run, whatever the template says, and the entry
\* is reported "omitido", not "creado", and counted in omitidos.
C1_NoDestructivo ==
  \A p \in ProcIds :
    proc[p].resuelto =>
      /\ \A j \in Procesadas(p) :
           ExistiaAntes(p, j) =>
             /\ ArchivoDe(p, j) \in DOMAIN proc[p].antes.files =>
                  /\ IsFile(ArchivoDe(p, j))
                  /\ files[ArchivoDe(p, j)] = proc[p].antes.files[ArchivoDe(p, j)]
             /\ Reportado(p, "omitido", RutaDe(p, j))
             /\ ~Reportado(p, "creado", RutaDe(p, j))
      /\ proc[p].omitidos = Cardinality({j \in Procesadas(p) : ExistiaAntes(p, j)})

\* C1 witness: a run has ended after skipping a file whose content differs
\* from the template of its path
C1_Witness ==
  \E p \in ProcIds :
    /\ Completo(p)
    /\ \E j \in Procesadas(p) :
         /\ ArchivoDe(p, j) \in DOMAIN proc[p].antes.files
         /\ proc[p].antes.files[ArchivoDe(p, j)] # ContenidoDe(p, j)
         /\ files[ArchivoDe(p, j)] # ContenidoDe(p, j)
         /\ Reportado(p, "omitido", RutaDe(p, j))

\* C2: idempotence.  When a level was materialized whole into an empty
\* destination and the same level is materialized again, the second run
\* creates 0 files, skips N = the number of entries of the level, and leaves
\* every file as the first run left it.
C2_Idempotencia ==
  \A p \in ProcIds :
    (Completo(p) /\ previo.exit = 0 /\ previo.nivel = proc[p].nivel) =>
      /\ proc[p].creados = 0
      /\ proc[p].omitidos = Len(get_templates(proc[p].nivel))
      /\ proc[p].omitidos > 0
      /\ files = proc[p].antes.files

\* C2 witness: the second of two runs of level 5 has ended
C2_Witness ==
  \E p \in ProcIds :
    Completo(p) /\ previo.exit = 0 /\ previo.nivel = 5 /\ proc[p].nivel = 5

\* two processes that have each resolved the templates of their level
Resueltos(p, q, k1, k2) ==
  /\ proc[p].resuelto /\ proc[p].nivel = k1
  /\ proc[q].resuelto /\ proc[q].nivel = k2

Bajo(k, dir) == Len(k) > 1 /\ k[1] = dir

\* C3 as stated: monotonic inclusion for every pair of levels k1 < k2 in 1..5
C3_InclusionMonotona ==
  \A p, q \in ProcIds :
    (proc[p].resuelto /\ proc[q].resuelto /\ proc[p].nivel < proc[q].nivel) =>
      Keys(proc[p].templates) \subseteq Keys(proc[q].templates)

\* C3 amended: monotonic inclusion holds from level 3 on.  For every pair of
\* levels 3 <= k1 < k2 <= 5 the paths of k1 are a subset of the paths of k2.
C3_InclusionDesde3 ==
  \A p, q \in ProcIds :
    (/\ proc[p].resuelto /\ proc[q].resuelto
     /\ 3 <= proc[p].nivel /\ proc[p].nivel < proc[q].nivel) =>
      /\ Keys(proc[p].templates) \subseteq Keys(proc[q].templates)
      /\ Keys(proc[p].templates) # Keys(proc[q].templates)

\* C3 witness: level 3 and level 5 have both been resolved
C3_Witness == \E p, q \in ProcIds : Resueltos(p, q, 3, 5)

\* the paths level 5 adds, by the three places the claim names
EsDeNivel5(k) ==
  \/ Bajo(k, "Presentation")
  \/ (Len(k) > 2 /\ k[1] = "Tests" /\ k[2] = "test_presentation")
  \/ k = <<"Docs", "guia_estilo.md">>

\* C8: level 5 delta.  The paths of level 5 are those of level 4 plus exactly
\* the paths under Presentation/, the paths under Tests/test_presentation/
\* and Docs/guia_estilo.md: none of these is a level-4 path, each of the
\* three places is populated, nothing else is added and nothing is removed.
C8_DeltaNivel5 ==
  \A p, q \in ProcIds :
    Resueltos(p, q, 4, 5) =>
      LET K4 == Keys(proc[p].templates)
          K5 == Keys(proc[q].templates)
      IN  /\ K4 \subseteq K5
          /\ K5 \ K4 = {k \in K5 : EsDeNivel5(k)}
          /\ \A k \in K4 : ~EsDeNivel5(k)
          /\ \E k \in K5 : Bajo(k, "Presentation")
          /\ \E k \in K5 : Len(k) > 2 /\ k[1] = "Tests" /\ k[2] = "test_presentation"
          /\ <<"Docs", "guia_estilo.md">> \in K5

\* C8 witness: level 4 and level 5 have both been resolved
C8_Witness == \E p, q \in ProcIds : Resueltos(p, q, 4, 5)

\* the files the claim lists for level 4 outside Tests/
Delta4Fuera ==
  { <<"config.py">>, <<"requirements.txt">>, <<".env.example">>, <<".gitignore">>,
    <<"Scripts", "__init__.py">>, <<"Scripts", "migraciones.py">>,
    <<"Scripts", "seed_data.py">>, <<"Docs", "README.md">>, <<"Docs", "arquitectura.md">> }

\* the conftest and one test module per layer, with their packages
Delta4Tests ==
  { <<"Tests", "__init__.py">>, <<"Tests", "conftest.py">>,
    <<"Tests", "test_domain", "__init__.py">>,
    <<"Tests", "test_domain", "test_entidad.py">>,
    <<"Tests", "test_application", "__init__.py">>,
    <<"Tests", "test_application", "test_servicio_entidad.py">>,
    <<"Tests", "test_infrastructure", "__init__.py">>,
    <<"Tests", "test_infrastructure", "test_repositorio.py">> }

\* C9: level 4 delta.  The paths of level 4 are those of level 3 plus exactly
\* config.py, requirements.txt, .env.example, .gitignore, the paths under
\* Tests/ (conftest and one test module per layer), the three files of
\* Scripts/ and the two of Docs/; no level-3 path is dropped.
C9_DeltaNivel4 ==
  \A p, q \in ProcIds :
    Resueltos(p, q, 3, 4) =>
      LET K3 == Keys(proc[p].templates)
          K4 == Keys(proc[q].templates)
      IN  /\ K3 \subseteq K4
          /\ K4 \ K3 = Delta4Fuera \cup Delta4Tests
          /\ {k \in K4 : Bajo(k, "Tests")} = Delta4Tests

\* C9 witness: level 3 and level 4 have both been resolved
C9_Witness == \E p, q \in ProcIds : Resueltos(p, q, 3, 4)

\* C10: level 3 file set.  The templates of level 3 contain the entity, the
\* use-case service, the SQL repository and the main view, and the root
\* files backend.py and bootstrap.py, and no path under Tests/ or
\* Presentation/.
C10_Nivel3 ==
  \A p \in ProcIds :
    (proc[p].resuelto /\ proc[p].nivel = 3) =>
      LET K3 == Keys(proc[p].templates)
      IN  /\ { <<"Domain", "entidades", "entidad.py">>,
               <<"Application", "servicios", "servicio_entidad.py">>,
               <<"Infrastructure", "persistencia", "repositorios", "repositorio_entidad_sql.py">>,
               <<"User_Interface", "vistas", "vista_principal.py">>,
               <<"backend.py">>, <<"bootstrap.py">> } \subseteq K3
          /\ \A k \in K3 : ~Bajo(k, "Tests") /\ ~Bajo(k, "Presentation")

\* C10 witness: level 3 has been resolved
C10_Witness == \E p \in ProcIds : proc[p].resuelto /\ proc[p].nivel = 3 /\ proc[p].pc = "mkdir"

\* every entry of the level is a regular file holding its template text
TodoMaterializado(p) ==
  \A j \in 1..Len(proc[p].templates) :
    IsFile(ArchivoDe(p, j)) /\ files[ArchivoDe(p, j)] = ContenidoDe(p, j)

\* C4 as stated: a run on an empty destination is killed at any point and
\* the same level is then run to completion; every path of the level exists
\* and every file holds its full template content.
C4_ReanudacionCompleta ==
  \A p \in ProcIds :
    (Completo(p) /\ previo.exit = 137 /\ previo.nivel = proc[p].nivel) =>
      TodoMaterializado(p)

\* the path of entry j is as it was when generar_estructura began
ComoAntes(p, j) ==
  IF ArchivoDe(p, j) \in DOMAIN proc[p].antes.files
  THEN IsFile(ArchivoDe(p, j)) /\ files[ArchivoDe(p, j)] = proc[p].antes.files[ArchivoDe(p, j)]
  ELSE ~IsFile(ArchivoDe(p, j))

\* the process died of a filesystem error raised inside the loop
Abortado(p) == proc[p].pc = "terminado" /\ proc[p].resuelto /\ proc[p].exit = 1

\* the state of a process that a filesystem error has ended
C5_Estado ==
  \A p \in ProcIds :
    Abortado(p) =>
      /\ proc[p].idx \in 1..Len(proc[p].templates)
      /\ \A j \in proc[p].idx..Len(proc[p].templates) :
           /\ ~Reportado(p, "creado", RutaDe(p, j))
           /\ ~Reportado(p, "omitido", RutaDe(p, j))
      /\ \A j \in (proc[p].idx + 1)..Len(proc[p].templates) : ComoAntes(p, j)
      /\ \A j \in Procesadas(p) :
           IF ExistiaAntes(p, j) THEN ComoAntes(p, j)
           ELSE IsFile(ArchivoDe(p, j)) /\ files[ArchivoDe(p, j)] = ContenidoDe(p, j)
      /\ proc[p].salida[Len(proc[p].salida)].tipo = "traceback"
      /\ ~Reportado(p, "generado", <<>>)

\* the step at which a filesystem error strikes process p
C5_Paso ==
  fallos' # fallos =>
    \A p \in ProcIds :
      proc'[p] # proc[p] =>
        /\ proc'[p].pc = "terminado" /\ proc'[p].exit = 1
        /\ proc'[p].idx = proc[p].idx
        /\ proc'[p].creados = proc[p].creados /\ proc'[p].omitidos = proc[p].omitidos
        /\ \A j \in Procesadas(p) :
             IsFile(ArchivoDe(p, j)) =>
               ArchivoDe(p, j) \in DOMAIN files' /\ files'[ArchivoDe(p, j)] = files[ArchivoDe(p, j)]

\* C5: abort without rollback.  When creating a directory or writing a file
\* fails for an entry, the error ends the process at that entry with a
\* non-zero exit status and without the closing message; no later entry is
\* examined, reported or written, and the files of the earlier entries stay
\* as they were.
C5_AbortoSinRollback == []C5_Estado /\ [][C5_Paso]_vars

\* C5 witness: a run has been ended by an error after it created a file
C5_Witness ==
  \E p \in ProcIds :
    /\ Abortado(p) /\ fallos > 0 /\ proc[p].creados > 0
    /\ \E j \in Procesadas(p) : ~ExistiaAntes(p, j) /\ files[ArchivoDe(p, j)] = ContenidoDe(p, j)

\* C6 as stated: the totals are always shown, also when the run fails
\* part-way with a filesystem error.
C6_ResumenSiempre ==
  \A p \in ProcIds :
    (proc[p].pc = "terminado" /\ proc[p].resuelto) => Reportado(p, "resumen", <<>>)

\* C6, what the code does: the totals are shown when the loop completes.  A run
\* that handles every entry prints, after the status lines, the created and
\* skipped totals of the N entries; a run that a filesystem error ends
\* part-way prints the status lines of the entries handled before the error
\* and no totals.
C6_ResumenAlCompletar ==
  \A p \in ProcIds :
    (proc[p].pc = "terminado" /\ proc[p].resuelto) =>
      /\ proc[p].exit = 0 =>
           /\ Len(proc[p].salida) = Len(proc[p].templates) + 2
           /\ proc[p].salida[Len(proc[p].templates) + 1] =
                Linea("resumen", <<>>, proc[p].creados, proc[p].omitidos)
           /\ proc[p].creados + proc[p].omitidos = Len(proc[p].templates)
      /\ proc[p].exit = 1 =>
           /\ ~Reportado(p, "resumen", <<>>)
           /\ Len(proc[p].salida) = proc[p].idx
           /\ \A j \in Procesadas(p) : proc[p].salida[j].ruta = RutaDe(p, j)
           /\ proc[p].creados + proc[p].omitidos = proc[p].idx - 1

\* C6 witness: an error has ended a run that had already handled entries
C6_Witness ==
  \E p \in ProcIds : Abortado(p) /\ proc[p].idx > 1 /\ proc[p].omitidos > 0

\* C7 as stated: with --forzar, the files that already exist at template
\* paths are overwritten with the template content.
C7_ForzarSobrescribe ==
  \A p \in ProcIds : (Completo(p) /\ proc[p].forzar) => TodoMaterializado(p)


\* C11: the two single-file levels.  get_templates(1) has exactly one entry,
\* proyecto.py; get_templates(2) has exactly two, backend.py and frontend.py;
\* and a run of level 1 on an empty destination creates exactly 1 file and
\* skips 0.
C11_NivelesUnoYDos ==
  \A p \in ProcIds :
    proc[p].resuelto =>
      /\ proc[p].nivel = 1 =>
           /\ Len(proc[p].templates) = 1
           /\ Keys(proc[p].templates) = { <<"proyecto.py">> }
      /\ proc[p].nivel = 2 =>
           /\ Len(proc[p].templates) = 2
           /\ Keys(proc[p].templates) = { <<"backend.py">>, <<"frontend.py">> }
      /\ (Completo(p) /\ proc[p].nivel = 1 /\ Vacio(proc[p].antes)) =>
           /\ proc[p].creados = 1
           /\ proc[p].omitidos = 0
           /\ DOMAIN files = { Root \o <<"proyecto.py">> }

\* C11 witness: a run of level 1 on an empty destination has ended
C11_Witness ==
  \E p \in ProcIds :
    Completo(p) /\ proc[p].nivel = 1 /\ Vacio(proc[p].antes) /\ proc[p].creados = 1

\* C13: for every level 1..5 the registry is non-empty and no path is
\* assigned twice while it is built: the call executes as many assignments
\* as the mapping has entries, and the entries have pairwise different paths.
C13_SinRutasRepetidas ==
  \A p \in ProcIds :
    proc[p].resuelto =>
      /\ proc[p].nivel \in NIVELES
      /\ Len(proc[p].templates) > 0
      /\ Len(proc[p].templates) = Len(Asignaciones(proc[p].nivel))
      /\ KeySeq(proc[p].templates) = KeySeq(Asignaciones(proc[p].nivel))
      /\ \A i, j \in 1..Len(proc[p].templates) :
           RutaDe(p, i) = RutaDe(p, j) => i = j

\* C13 witness: the two slots hold the registries of the smallest and of the
\* largest level
C13_Witness ==
  \E p, q \in ProcIds :
    /\ proc[p].resuelto /\ proc[p].nivel = 1 /\ Len(proc[p].templates) = 1
    /\ proc[q].resuelto /\ proc[q].nivel = 5 /\ Len(proc[q].templates) = 62

\* C14: directory creation.  When a run has completed, every ancestor
\* directory of every template path exists under the destination, also when
\* the destination itself did not exist before the run; and whenever a file
\* is about to be opened or is being written, its parent directory exists.
C14_DirectoriosCreados ==
  \A p \in ProcIds :
    proc[p].resuelto =>
      /\ Completo(p) =>
           \A j \in 1..Len(proc[p].templates) :
             \A a \in Chain(Parent(ArchivoDe(p, j))) : IsDir(a)
      /\ proc[p].pc \in {"abrir", "volcar"} =>
           \A a \in Chain(Parent(Archivo(p))) : IsDir(a)

\* C14 witness: a run of level 5 has ended that began with nothing on disk
\* (no file exists before the first run that reaches the destination), and a
\* directory two levels below the destination is there
C14_Witness ==
  \E p \in ProcIds :
    /\ Completo(p) /\ proc[p].nivel = 5 /\ Vacio(proc[p].antes)
    /\ proc[p].creados = Len(proc[p].templates)
    /\ IsDir(Root \o <<"Presentation", "viewmodels">>)

\* the positions of main after ruta.mkdir and inside generar_estructura
TrasMkdirRaiz == {"resolver", "mkdir", "existe", "abrir", "volcar", "resumen", "exito"}

\* C15: the destination first.  In direct and in interactive mode alike (both
\* reach generar_estructura through the same ruta.mkdir), the destination
\* and all its ancestors exist before generar_estructura starts, hence before
\* the first template file is written: no file exists under a missing
\* destination, and no step creates or changes a file while the destination
\* or one of its ancestors is missing.
C15_Estado ==
  /\ \A p \in ProcIds :
       (proc[p].pc \in TrasMkdirRaiz \/ proc[p].resuelto) =>
         \A a \in Chain(Root) : IsDir(a)
  /\ files # SinArchivos => \A a \in Chain(Root) : IsDir(a)

C15_Paso == files' # files => \A a \in Chain(Root) : IsDir(a)

C15_RaizPrimero == []C15_Estado /\ [][C15_Paso]_vars

\* C15 witness: the first file of a run is open for writing, nothing was on
\* disk when the run began, and the destination is there with its ancestor
C15_Witness ==
  \E p \in ProcIds :
    /\ proc[p].pc = "volcar" /\ proc[p].idx = 1
    /\ Vacio(proc[p].antes)
    /\ IsDir(Root) /\ IsDir(Parent(Root))

\* a status line of the loop
EsEstado(linea) == linea.tipo \in {"creado", "omitido"}

\* C16: one entry at a time, in registry order.  The status lines printed so
\* far are those of entries 1 .. idx-1 in that order, and while the loop is
\* at entry idx nothing has been printed for it or for a later entry; a step
\* of the run either stays at the entry or moves to the next one, printing
\* the status line of the entry it leaves, and it creates directories and
\* writes a file only for the entry it is at.
C16_Estado ==
  \A p \in ProcIds :
    proc[p].resuelto =>
      /\ proc[p].idx \in 1..(Len(proc[p].templates) + 1)
      /\ Len(proc[p].salida) >= proc[p].idx - 1
      /\ \A j \in Procesadas(p) :
           EsEstado(proc[p].salida[j]) /\ proc[p].salida[j].ruta = RutaDe(p, j)
      /\ \A n \in 1..Len(proc[p].salida) :
           EsEstado(proc[p].salida[n]) => n \in Procesadas(p)
      /\ EnBucle(p) => Len(proc[p].salida) = proc[p].idx - 1

C16_Paso ==
  \A p \in ProcIds :
    (proc[p].resuelto /\ proc'[p].resuelto /\ proc'[p] # proc[p]) =>
      /\ proc'[p].templates = proc[p].templates
      /\ proc'[p].idx \in {proc[p].idx, proc[p].idx + 1}
      /\ proc'[p].idx = proc[p].idx + 1 =>
           /\ EnBucle(p)
           /\ Len(proc'[p].salida) = Len(proc[p].salida) + 1
           /\ SubSeq(proc'[p].salida, 1, Len(proc[p].salida)) = proc[p].salida
           /\ EsEstado(proc'[p].salida[proc[p].idx])
           /\ proc'[p].salida[proc[p].idx].ruta = RutaRelativa(p)
      /\ files' # files =>
           /\ EnBucle(p)
           /\ \A f \in DOMAIN files' :
                (f \notin DOMAIN files \/ files'[f] # files[f]) => f = Archivo(p)
      /\ dirs' # dirs =>
           /\ EnBucle(p)
           /\ dirs' = dirs \cup Chain(Parent(Archivo(p)))

C16_EnOrden == []C16_Estado /\ [][C16_Paso]_vars

\* C16 witness: a run of level 3 on a destination that holds backend.py is at
\* its fifth entry, after one skipped and three created entries
C16_Witness ==
  \E p \in ProcIds :
    /\ proc[p].pc = "volcar" /\ proc[p].nivel = 3 /\ proc[p].idx = 5
    /\ proc[p].salida[1].tipo = "omitido"
    /\ proc[p].salida[4].tipo = "creado"

\* C17: the counters.  At every point of a run creados + omitidos is the
\* number of entries handled so far, and each handled entry has exactly one
\* status line (there are as many status lines as handled entries, one per
\* entry), "creado" if its path was absent and "omitido" if it was present;
\* creados counts the former and omitidos the latter.  When the
\* run completes the two add up to N, the number of entries of the level,
\* and the totals line shows them.
C17_Contadores ==
  \A p \in ProcIds :
    proc[p].resuelto =>
      /\ proc[p].creados + proc[p].omitidos = proc[p].idx - 1
      /\ Cardinality({n \in 1..Len(proc[p].salida) : EsEstado(proc[p].salida[n])})
           = proc[p].idx - 1
      /\ \A j \in Procesadas(p) :
           /\ proc[p].salida[j].ruta = RutaDe(p, j)
           /\ proc[p].salida[j].tipo = "omitido" <=> ExistiaAntes(p, j)
           /\ proc[p].salida[j].tipo = "creado" <=> ~ExistiaAntes(p, j)
      /\ proc[p].creados = Cardinality({j \in Procesadas(p) : ~ExistiaAntes(p, j)})
      /\ proc[p].omitidos = Cardinality({j \in Procesadas(p) : ExistiaAntes(p, j)})
      /\ Completo(p) =>
           /\ proc[p].creados + proc[p].omitidos = Len(get_templates(proc[p].nivel))
           /\ Reportado(p, "resumen", <<>>)
           /\ \A n \in 1..Len(proc[p].salida) :
                proc[p].salida[n].tipo = "resumen" =>
                  /\ proc[p].salida[n].creados = proc[p].creados
                  /\ proc[p].salida[n].omitidos = proc[p].omitidos

\* C17 witness: a run has completed with both counters positive
C17_Witness ==
  \E p \in ProcIds :
    /\ Completo(p) /\ proc[p].creados > 0 /\ proc[p].omitidos > 0
    /\ proc[p].creados + proc[p].omitidos = Len(proc[p].templates)

\* C18: verbatim materialization.  When a run has completed on a destination
\* that was empty or missing, the regular files under the destination are
\* exactly the paths of get_templates(level), and each file holds the
\* registry content of its path.
C18_Verbatim ==
  \A p \in ProcIds :
    (Completo(p) /\ Vacio(proc[p].antes)) =>
      /\ DOMAIN files = {Root \o k : k \in Keys(get_templates(proc[p].nivel))}
      /\ \A j \in 1..Len(get_templates(proc[p].nivel)) :
           files[Root \o get_templates(proc[p].nivel)[j][1]] =
             get_templates(proc[p].nivel)[j][2]
      /\ \A f \in DOMAIN files : ~IsDir(f)

\* C18 witness: a run of level 4 on an empty destination has ended, with an
\* empty package file and a generated module on disk
C18_Witness ==
  \E p \in ProcIds :
    /\ Completo(p) /\ proc[p].nivel = 4 /\ Vacio(proc[p].antes)
    /\ files[Root \o <<"Scripts", "__init__.py">>] = ""
    /\ files[Root \o <<"Scripts", "seed_data.py">>] = "_tpl_seed"

\* the positions of main at which a level has been accepted
ConNivel == {"pedir_ruta", "confirmar", "mkdir_raiz"} \cup TrasMkdirRaiz

\* C19: only levels 1..5 reach get_templates.  Wherever main holds an
\* accepted level, and in generar_estructura, the level is an integer in
\* 1..5.  An invocation whose level argument is outside 1..5 ends at argument
\* parsing with the usage error; the level prompt is left only with a level
\* in 1..5 or by cancelling; and neither step creates or changes anything on
\* disk.
C19_Estado ==
  \A p \in ProcIds :
    /\ (proc[p].pc \in ConNivel \/ proc[p].resuelto) => proc[p].nivel \in NIVELES
    /\ (proc[p].pc = "terminado" /\ proc[p].exit = 2) =>
         /\ ~proc[p].resuelto
         /\ proc[p].salida = <<Linea("uso", <<>>, 0, 0)>>

C19_Paso ==
  \A p \in ProcIds :
    (proc'[p] # proc[p] /\ proc[p].pc \in {"inicio", "pedir_nivel"}) =>
      /\ dirs' = dirs /\ files' = files
      /\ proc[p].pc = "inicio" =>
           \/ proc'[p].pc = "terminado" /\ proc'[p].exit = 2
           \/ proc'[p].pc = "mkdir_raiz" /\ proc'[p].nivel \in NIVELES
           \/ proc'[p].pc = "pedir_nivel"
      /\ proc[p].pc = "pedir_nivel" =>
           \/ proc'[p].pc = "pedir_ruta" /\ proc'[p].nivel \in NIVELES
           \/ proc'[p].pc = "terminado" /\ proc'[p].exit = 0 /\ ~proc'[p].resuelto

C19_NivelValido == []C19_Estado /\ [][C19_Paso]_vars

\* C19 witness: an invocation has been rejected at argument parsing with
\* nothing on disk
C19_Witness ==
  \E p \in ProcIds :
    /\ proc[p].pc = "terminado" /\ proc[p].exit = 2
    /\ dirs = {<<>>} /\ files = SinArchivos

\* the prompts of the interactive mode
Preguntas == {"pedir_nivel", "pedir_ruta", "confirmar"}

\* C20: cancellation.  An interactive session that is cancelled at the level
\* prompt, at the path prompt or at the confirmation (end of input, an
\* interrupt, or a negative answer) ends with the cancellation notice and
\* exit status 0; no step of the session, from its start to the end of the
\* prompts, creates a directory or a file.
C20_Estado ==
  \A p \in ProcIds :
    Reportado(p, "cancelado", <<>>) =>
      /\ proc[p].pc = "terminado"
      /\ proc[p].exit = 0
      /\ ~proc[p].resuelto
      /\ proc[p].salida = <<Linea("cancelado", <<>>, 0, 0)>>

C20_Paso ==
  \A p \in ProcIds :
    (proc'[p] # proc[p] /\ proc[p].pc \in Preguntas \cup {"inicio"}) =>
      /\ dirs' = dirs /\ files' = files
      /\ (proc[p].pc \in Preguntas /\ proc'[p].pc = "terminado") =>
           /\ proc'[p].exit = 0
           /\ proc'[p].salida = <<Linea("cancelado", <<>>, 0, 0)>>
      /\ (proc[p].pc \in Preguntas /\ proc'[p].pc # "terminado") =>
           proc'[p].pc \in Preguntas \cup {"mkdir_raiz"}

C20_Cancelacion == []C20_Estado /\ [][C20_Paso]_vars

\* C20 witness: a session has been cancelled after the level prompt, and
\* there is nothing on disk
C20_Witness ==
  \E p \in ProcIds :
    /\ proc[p].pc = "terminado" /\ Reportado(p, "cancelado", <<>>)
    /\ proc[p].nivel \in NIVELES
    /\ dirs = {<<>>} /\ files = SinArchivos

\* C21: the race between two concurrent runs is not mitigated.  Once a run
\* has found a path absent, nothing checks again: its open succeeds and
\* empties whatever the other run has put at the path meanwhile, its write
\* leaves its own content there and the entry is reported and counted as
\* created.  So when both runs report the same path created, the file holds
\* the content of whichever wrote last.
C21_Estado ==
  \A p, q \in ProcIds :
    (p # q /\ proc[p].resuelto /\ proc[q].resuelto) =>
      \A j \in Procesadas(p), k \in Procesadas(q) :
        ( /\ RutaDe(p, j) = RutaDe(q, k)
          /\ proc[p].salida[j].tipo = "creado"
          /\ proc[q].salida[k].tipo = "creado" ) =>
            /\ ~ExistiaAntes(p, j) /\ ~ExistiaAntes(q, k)
            /\ IsFile(ArchivoDe(p, j))
            /\ files[ArchivoDe(p, j)] \in {ContenidoDe(p, j), ContenidoDe(q, k)}

C21_Paso ==
  \A p \in ProcIds :
    proc'[p] # proc[p] =>
      /\ proc[p].pc = "abrir" =>
           /\ proc'[p].pc = "volcar"
           /\ files' = Opened(Archivo(p))
      /\ proc[p].pc = "volcar" =>
           /\ files' = Written(Archivo(p), Contenido(p))
           /\ proc'[p].creados = proc[p].creados + 1
           /\ proc'[p].idx = proc[p].idx + 1
           /\ proc'[p].salida = Append(proc[p].salida, Linea("creado", RutaRelativa(p), 0, 0))

C21_CarreraSinMitigar == []C21_Estado /\ [][C21_Paso]_vars

\* C21 witness: a run of level 2 and a run of a level from 3 on have both
\* ended, both report backend.py created, and the file holds the content of
\* the higher level: the level-2 backend.py, written and reported, is gone
C21_Witness ==
  \E p, q \in ProcIds :
    /\ Completo(p) /\ proc[p].nivel = 2
    /\ Completo(q) /\ proc[q].nivel >= 3
    /\ Reportado(p, "creado", <<"backend.py">>)
    /\ Reportado(q, "creado", <<"backend.py">>)
    /\ proc[p].creados = 2 /\ proc[q].omitidos = 0
    /\ files[Root \o <<"backend.py">>] = "_tpl_backend"

\* the files and the directories of a registry materialized alone into an
\* empty destination
Arbol(t) ==
  [f \in {Root \o t[i][1] : i \in 1..Len(t)} |->
     t[CHOOSE i \in 1..Len(t) : Root \o t[i][1] = f][2]]

DirsDe(t) == {<<>>} \cup UNION {Chain(Parent(Root \o t[i][1])) : i \in 1..Len(t)}

Max(a, b) == IF a >= b THEN a ELSE b

\* C22: convergence of the levels 3..5.  A path that two of the levels 3, 4,
\* 5 share has the same content in both; so when level k1 was materialized
\* into an empty destination and level k2 after it (k1, k2 in 3..5, in either
\* order), the tree is exactly the tree of max(k1, k2) materialized alone,
\* and the second run has created exactly the paths of k2 that k1 lacks.
C22_Convergencia ==
  \A p \in ProcIds :
    (Completo(p) /\ previo.nivel \in 3..5 /\ proc[p].nivel \in 3..5) =>
      LET t1 == get_templates(previo.nivel)
          t2 == proc[p].templates
          tm == get_templates(Max(previo.nivel, proc[p].nivel))
      IN  /\ \A i \in 1..Len(t1), j \in 1..Len(t2) :
               t1[i][1] = t2[j][1] => t1[i][2] = t2[j][2]
          /\ files = Arbol(tm)
          /\ dirs = DirsDe(tm)
          /\ proc[p].creados = Cardinality(Keys(t2) \ Keys(t1))
          /\ \A j \in 1..Len(t2) :
               proc[p].salida[j].tipo = "creado" <=> RutaDe(p, j) \notin Keys(t1)

\* C22 witness: level 5 has been materialized after level 3, creating the 30
\* paths that level 3 lacks
C22_Witness ==
  \E p \in ProcIds :
    /\ Completo(p) /\ previo.nivel = 3 /\ proc[p].nivel = 5
    /\ proc[p].creados = 30 /\ proc[p].omitidos = 32

\* C23: upgrading from level 2 mixes templates.  When a level from 3 to 5 is
\* materialized over a level-2 project, backend.py is reported skipped and
\* keeps its level-2 content, which is not the content the level gives it;
\* frontend.py stays; every other path of the level is created with its
\* content; so the tree is not the tree of the level materialized alone.
C23_MezclaDesdeNivel2 ==
  \A p \in ProcIds :
    (Completo(p) /\ previo.nivel = 2 /\ proc[p].nivel \in 3..5) =>
      /\ RutaDe(p, 1) = <<"backend.py">>
      /\ proc[p].salida[1] = Linea("omitido", <<"backend.py">>, 0, 0)
      /\ files[Root \o <<"backend.py">>] = "nivel2:backend.py"
      /\ files[Root \o <<"backend.py">>] # ContenidoDe(p, 1)
      /\ IsFile(Root \o <<"frontend.py">>)
      /\ <<"frontend.py">> \notin Keys(proc[p].templates)
      /\ \A j \in 2..Len(proc[p].templates) :
           /\ proc[p].salida[j].tipo = "creado"
           /\ files[ArchivoDe(p, j)] = ContenidoDe(p, j)
      /\ proc[p].omitidos = 1
      /\ files # Arbol(proc[p].templates)

\* C23 witness: level 4 has been materialized over a level-2 project
C23_Witness ==
  \E p \in ProcIds :
    /\ Completo(p) /\ previo.nivel = 2 /\ proc[p].nivel = 4
    /\ Reportado(p, "omitido", <<"backend.py">>)
    /\ proc[p].creados = 48

\* C24: levels outside 1..5 in get_templates.  A call with a level above 5
\* resolves the registry of level 5; a call with a level below 1 resolves
\* the empty registry, on which generar_estructura creates and changes
\* nothing and reports 0 created; no call ends in an error.
C24_FueraDeRango ==
  \A p \in ProcIds :
    /\ proc[p].exit = 0
    /\ (proc[p].resuelto /\ proc[p].nivel > 5) =>
         /\ Len(proc[p].templates) = 62
         /\ (proc[p].pc = "mkdir" /\ proc[p].idx = 1) =>
              proc[p].templates = get_templates(5)
    /\ (proc[p].resuelto /\ proc[p].nivel < 1) =>
         /\ proc[p].templates = <<>>
         /\ proc[p].pc \in {"resumen", "exito", "terminado"}
         /\ proc[p].creados = 0 /\ proc[p].omitidos = 0
         /\ dirs = proc[p].antes.dirs /\ files = proc[p].antes.files
         /\ proc[p].pc # "resumen" =>
              proc[p].salida = <<Linea("resumen", <<>>, 0, 0)>>

\* C24 witness: a call with level 0 has returned, after a call with level 6
\* that created the 62 files of level 5 in an empty destination
C24_Witness ==
  \E p \in ProcIds :
    /\ Completo(p) /\ proc[p].nivel = 0
    /\ previo.nivel = 6
    /\ Cardinality(DOMAIN files) = 62
    /\ files = Arbol(get_templates(5))

\* C25: the registry is prefix-free.  No template file path, of any level,
\* is an ancestor directory of a template file path of any level: whatever
\* sequence of levels is materialized into an initially empty destination,
\* no path is both a file and a directory, a run that starts finds no
\* directory where it has a file and no file where it needs a directory,
\* and no run fails.
C25_SinPrefijos ==
  /\ \A f \in DOMAIN files : ~IsDir(f)
  /\ \A p \in ProcIds :
       /\ proc[p].exit # 1
       /\ (proc[p].pc = "mkdir" /\ proc[p].idx = 1) =>
            \A j \in 1..Len(proc[p].templates) :
              /\ ~IsDir(ArchivoDe(p, j))
              /\ \A a \in Chain(Parent(ArchivoDe(p, j))) : ~IsFile(a)
              /\ \A i \in 1..Len(proc[p].templates) :
                   RutaDe(p, i) \notin Chain(Parent(RutaDe(p, j)))

\* C25 witness: a run has ended with files of the levels 1, 2 and 5, that
\* is, with every path of every level, on disk
C25_Witness ==
  \E p \in ProcIds :
    /\ Completo(p)
    /\ IsFile(Root \o <<"proyecto.py">>)
    /\ IsFile(Root \o <<"frontend.py">>)
    /\ IsFile(Root \o <<"Docs", "guia_estilo.md">>)
    /\ Cardinality(DOMAIN files) = 64

\* C26: the frame of the materializer.  A run deletes, renames and empties
\* nothing: every directory and every file that existed when the run began
\* still exists, every such file (at a template path of the level or not)
\* holds the content it had, and what the run adds are files at template
\* paths of its level and their ancestor directories; no step of a run
\* removes a path.
C26_Estado ==
  \A p \in ProcIds :
    proc[p].resuelto =>
      /\ proc[p].antes.dirs \subseteq dirs
      /\ \A f \in DOMAIN proc[p].antes.files :
           IsFile(f) /\ files[f] = proc[p].antes.files[f]
      /\ (DOMAIN files \ DOMAIN proc[p].antes.files)
           \subseteq {ArchivoDe(p, j) : j \in 1..Len(proc[p].templates)}
      /\ (dirs \ proc[p].antes.dirs) \subseteq DirsDe(proc[p].templates)

C26_Paso ==
  (\E p \in ProcIds : proc'[p] # proc[p]) =>
    /\ dirs \subseteq dirs'
    /\ DOMAIN files \subseteq DOMAIN files'

C26_Marco == []C26_Estado /\ [][C26_Paso]_vars

\* C26 witness: a run of level 3 has ended on a destination that held a
\* level-1 project and a backend.py edited by hand; it created files, and
\* both older files are as they were
C26_Witness ==
  \E p \in ProcIds :
    /\ Completo(p) /\ proc[p].nivel = 3 /\ proc[p].creados > 0
    /\ IsFile(Root \o <<"proyecto.py">>)
    /\ Root \o <<"proyecto.py">> \in DOMAIN proc[p].antes.files
    /\ Root \o <<"backend.py">> \in DOMAIN proc[p].antes.files
    /\ files[Root \o <<"backend.py">>] = "editado"

\* an ancestor directory of the entry was a regular file when the run began
Bloqueada(p, j) ==
  \E a \in Chain(Parent(ArchivoDe(p, j))) : a \in DOMAIN proc[p].antes.files

\* C27: a blocked ancestor.  The directories of an entry are created before
\* its existence check, so a run goes past no entry one of whose ancestor
\* directories is a regular file: it ends at the first such entry with a
\* filesystem error and no totals, that entry and the later ones have no
\* status line and are on disk as before the run, and each earlier entry
\* keeps its outcome (a created file holds its content, a skipped path is as
\* it was).  A run with no such entry completes.
C27_AncestroBloqueado ==
  \A p \in ProcIds :
    proc[p].resuelto =>
      LET B == {j \in 1..Len(proc[p].templates) : Bloqueada(p, j)} IN
        /\ \A j \in Procesadas(p) : j \notin B
        /\ proc[p].pc \in {"existe", "abrir", "volcar"} =>
             /\ proc[p].idx \notin B
             /\ IsDir(Parent(Archivo(p)))
        /\ (proc[p].pc = "terminado" /\ B = {}) => proc[p].exit = 0
        /\ (proc[p].pc = "terminado" /\ B # {}) =>
             /\ proc[p].exit = 1
             /\ proc[p].idx \in B
             /\ Len(proc[p].salida) = proc[p].idx
             /\ proc[p].salida[proc[p].idx].tipo = "traceback"
             /\ \A j \in Procesadas(p) :
                  /\ EsEstado(proc[p].salida[j])
                  /\ proc[p].salida[j].ruta = RutaDe(p, j)
                  /\ IF proc[p].salida[j].tipo = "creado"
                     THEN IsFile(ArchivoDe(p, j)) /\ files[ArchivoDe(p, j)] = ContenidoDe(p, j)
                     ELSE ExistiaAntes(p, j) /\ ComoAntes(p, j)
             /\ \A j \in proc[p].idx..Len(proc[p].templates) : ComoAntes(p, j)
             /\ dirs \subseteq proc[p].antes.dirs \cup DirsDe(SubSeq(proc[p].templates, 1, proc[p].idx - 1))

\* C27 witness: a run of level 3 has ended with an error at its fourth
\* entry, Domain/entidades/__init__.py, under a regular file Domain/entidades,
\* after creating three files
C27_Witness ==
  \E p \in ProcIds :
    /\ Abortado(p) /\ proc[p].nivel = 3 /\ proc[p].idx = 4
    /\ RutaDe(p, 4) = <<"Domain", "entidades", "__init__.py">>
    /\ files[Root \o <<"Domain", "entidades">>] = "usuario"
    /\ proc[p].creados = 3
    /\ files[Root \o <<"Domain", "__init__.py">>] = ContenidoDe(p, 3)

\* the command line gave a level / a destination
ConArgNivel(p) == proc[p].args # <<>> /\ proc[p].args[1] # <<>>

ConArgRuta(p) == proc[p].args # <<>> /\ proc[p].args[2] # "none"

\* C28: the choice of the mode.  An invocation goes straight to the creation
\* of the destination, with no prompt, only when the command line gave both
\* the level and the destination, and then with the level of the command
\* line.  An accepted invocation that gave the level alone goes to the level
\* prompt with no level kept; the creation of the destination is otherwise
\* reached from a positive confirmation only, with the level typed at the
\* level prompt, which the later prompts leave alone, and that level is the
\* one whose registry is resolved.
C28_Estado ==
  \A p \in ProcIds :
    /\ (proc[p].pc = "pedir_nivel") => proc[p].nivel = 0
    /\ (proc[p].pc \in Preguntas /\ proc[p].args # <<>>) =>
         ~(ConArgNivel(p) /\ proc[p].args[2] = "dada" /\ proc[p].args[1][1] \in NIVELES)
    /\ (proc[p].resuelto /\ proc[p].idx = 1) =>
         proc[p].templates = get_templates(proc[p].nivel)

C28_Paso ==
  \A p \in ProcIds :
    proc'[p] # proc[p] =>
      /\ (proc[p].pc = "inicio" /\ proc'[p].pc = "mkdir_raiz") =>
           /\ ConArgNivel(p)' /\ ConArgRuta(p)'
           /\ proc'[p].nivel = proc'[p].args[1][1]
      /\ (proc[p].pc = "inicio" /\ ConArgNivel(p)' /\ ~ConArgRuta(p)') =>
           \/ proc'[p].pc = "pedir_nivel" /\ proc'[p].nivel = 0
           \/ proc'[p].pc = "terminado" /\ proc'[p].exit = 2
                /\ proc'[p].args[1][1] \notin NIVELES
      /\ proc'[p].pc = "mkdir_raiz" => proc[p].pc \in {"inicio", "confirmar"}
      /\ (proc[p].pc = "pedir_nivel" /\ proc'[p].pc # "terminado") =>
           proc'[p].pc = "pedir_ruta" /\ proc'[p].nivel \in NIVELES
      /\ (proc[p].pc = "pedir_ruta" /\ proc'[p].pc # "terminado") =>
           proc'[p].pc = "confirmar"
      /\ proc[p].pc \in {"pedir_ruta", "confirmar", "mkdir_raiz", "resolver"} =>
           proc'[p].nivel = proc[p].nivel
      /\ proc[p].pc # "inicio" => (proc'[p].pc = "inicio" \/ proc'[p].args = proc[p].args)

C28_SeleccionDeModo == []C28_Estado /\ [][C28_Paso]_vars

\* C28 witness: an invocation that gave level 3 and no destination has
\* resolved the registry of level 5, typed at the prompt
C28_Witness ==
  \E p \in ProcIds :
    /\ proc[p].resuelto /\ proc[p].args = << <<3>>, "none" >>
    /\ proc[p].nivel = 5 /\ Len(proc[p].templates) = 62


\* ---- C30 ---------------------------------------------------------------
SinRepetidos(s) == Cardinality(Rango(s)) = Len(s)

\* in every state: the executions made so far and the rows of the ledger
\* are both the head of MIGRACIONES, nothing in them twice, and they differ
\* only by the migration executed and not yet recorded
C30_Estado ==
  /\ SinRepetidos(mig.ejecutadas)
  /\ SinRepetidos(mig.ledger)
  /\ Len(mig.ejecutadas) <= Len(mig.lista)
  /\ mig.ejecutadas = SubSeq(mig.lista, 1, Len(mig.ejecutadas))
  /\ Len(mig.ledger) <= Len(mig.ejecutadas)
  /\ mig.ledger = SubSeq(mig.ejecutadas, 1, Len(mig.ledger))
  /\ Len(mig.ejecutadas) - Len(mig.ledger)
       = (IF mig.pc = "registrar" THEN 1 ELSE 0)
  /\ mig.pc # "error"

\* in every step: what is executed is the entry of the loop, its name not in
\* the ledger; what is skipped is in the ledger; what is recorded is the
\* migration just executed; a finished run leaves every migration executed
\* once and recorded once, having executed those absent when it started
C30_Paso ==
  /\ mig'.ejecutadas # mig.ejecutadas =>
       /\ mig'.ejecutadas = Append(mig.ejecutadas, mig.lista[mig.i])
       /\ mig.lista[mig.i] \notin Rango(mig.ledger)
       /\ \A j \in 1..(mig.i - 1) : mig.lista[j] \in Rango(mig.ledger)
       /\ mig'.ledger = mig.ledger
  /\ (mig.pc = "bucle" /\ mig'.pc = "bucle") =>
       /\ mig.lista[mig.i] \in Rango(mig.ledger)
       /\ mig'.ejecutadas = mig.ejecutadas
       /\ mig'.ledger = mig.ledger
  /\ mig'.ledger # mig.ledger =>
       /\ mig.pc = "registrar"
       /\ mig'.ledger = Append(mig.ledger, mig.ejecutadas[Len(mig.ejecutadas)])
       /\ mig'.ejecutadas = mig.ejecutadas
  /\ (mig.pc = "bucle" /\ mig'.pc = "fuera") =>
       /\ mig'.ejecutadas = mig.lista
       /\ mig'.ledger = mig.lista
       /\ { l[2] : l \in { m \in Rango(mig'.salida) : m[1] = "aplicando" } }
            = Rango(mig.lista) \ mig.aplicadas
       /\ { l[2] : l \in { m \in Rango(mig'.salida) : m[1] = "ya_aplicada" } }
            = mig.aplicadas

\* C30: aplicar_migraciones executes, in list order, exactly the migrations
\* whose name is not yet in the _migraciones ledger and records each one
\* after executing it; a migration in the ledger is never executed again, so
\* after any number of 'init' runs each migration has been executed once and
\* appears once in the ledger
C30_Migraciones == []C30_Estado /\ [][C30_Paso]_vars

\* an 'init' run has finished that skipped a recorded migration and executed
\* a new one
C30_Witness ==
  /\ mig.pc = "fuera"
  /\ \E m \in Rango(mig.salida) : m[1] = "ya_aplicada"
  /\ \E m \in Rango(mig.salida) : m[1] = "aplicando"
  /\ mig.ledger = mig.lista
  /\ mig.ejecutadas = mig.lista


\* ---- C29 ---------------------------------------------------------------
\* guardar() has just returned for a selected entity whose name fails
\* validar()
C29_GuardarInvalido ==
  /\ vm.op = "guardar"
  /\ vm.pc = "vista"
  /\ vm.sel.hay
  /\ tiene_errores(validar(vm.sel.nombre))

\* cargar(), guardar() or eliminar_seleccionada() has just returned (the
\* constructor ends with cargar())
C29_Retornado ==
  /\ vm.pc = "vista"
  /\ vm.op \in {"__init__", "cargar", "guardar", "eliminar_seleccionada"}

\* C29: guardar() on a selected entity that fails format validation returns
\* False, records one error per invalid field (tiene_errores() is true) and
\* does not call the backend's crear_entidad; an exception raised by the
\* backend in cargar, guardar or eliminar_seleccionada is caught and turned
\* into a message; and once any of these has returned, ocupado is False
C29_ViewModel ==
  /\ C29_GuardarInvalido =>
       /\ vm.ret = "False"
       /\ tiene_errores(vm.errores)
       /\ \A c \in DOMAIN validar(vm.sel.nombre) :
            /\ c \in DOMAIN vm.errores
            /\ vm.errores[c] = validar(vm.sel.nombre)[c]
       /\ vm.llamadas = <<>>
  /\ vm.pc \in {"vista", "cargar", "guardar_crear", "guardar_cargar",
                "eliminar", "eliminar_cargar"}
  /\ (C29_Retornado /\ vm.fallo = "obtener_entidades") =>
       vm.mensaje = Mensaje("Error al cargar", 0)
  /\ (C29_Retornado /\ vm.fallo = "crear_entidad") =>
       /\ vm.mensaje = Mensaje("Error al guardar", 0)
       /\ vm.op = "guardar" /\ vm.ret = "False"
  /\ (C29_Retornado /\ vm.fallo = "eliminar_entidad") =>
       /\ vm.mensaje = Mensaje("Error al eliminar", 0)
       /\ vm.op = "eliminar_seleccionada" /\ vm.ret = "False"
  /\ vm.pc = "vista" => ~vm.ocupado

\* the case of the generated test: nueva(), a name of one character, and
\* guardar() has returned False with an error for nombre
C29_Witness ==
  /\ C29_GuardarInvalido
  /\ vm.sel.id = 0
  /\ vm.sel.nombre = [largo |-> 1, neto |-> 1]
  /\ vm.ret = "False"
  /\ vm.errores = [c \in {"nombre"} |-> "minimo"]
  /\ ~vm.ocupado

\* guardar() has returned False because backend.crear_entidad raised
C29_WitnessBackend ==
  /\ vm.op = "guardar"
  /\ vm.pc = "vista"
  /\ vm.fallo = "crear_entidad"
  /\ vm.ret = "False"
  /\ ~vm.ocupado

=============================================================================
